---- MODULE Spec2Model ----
(***************************************************************************)
(* Model of the slide packer of src/src/services/powerpoint.ts             *)
(* (PowerPointService), of the custom song library of                      *)
(* src/unnamed/part_002 (SongLibraryService), of the hook                  *)
(* src/src/hooks/useSongLibrary.ts, of the song database of                *)
(* src/src/database/DatabaseManager.ts, of the slide order kept by         *)
(* src/src/App.tsx, of exportPresentation and of the reading service of    *)
(* src/unnamed/part_003 (AELFService).                                     *)
(*                                                                         *)
(* Strings are sequences of one-character strings, so that trim, split,    *)
(* countWords and the regular expressions of the source are computed on    *)
(* characters.  A word of the generated inputs is one letter; the letter   *)
(* names the sentence or line the word belongs to.                         *)
(***************************************************************************)
EXTENDS Integers, Sequences, FiniteSets, TLC

VARIABLES
  mode,              \* "reading" | "song" | "merge" | "library" | "hook" | "database" |
                     \* "app" | "export" | "aelf"
  text,              \* reading.text or song.lyrics
  pc,                \* position in the running call
  sentences,         \* reading mode: result of splitIntoSentences
  sections,          \* song mode: result of splitSongIntoSections
  idx,               \* index of the next sentence / section of the for loop
  currentChunk,      \* let currentChunk (with its history fields)
  currentWordCount,  \* let currentWordCount
  optimizedChunks,   \* optimizedChunks / optimizedVerses
  slideCount,        \* slideCount of createOptimized*Slides
  slideTitles,       \* the titles given to the content slides, in order
  chunksIn,          \* merge mode: the argument of mergeSmallChunks
  storage,           \* library: localStorage[STORAGE_KEY]
  nextId,            \* library: source of generateUniqueId
  lastResult,        \* library, database: what the last call returned
  hook,              \* hook: the state of useSongLibrary
  pending,           \* hook: the saveToLibrary calls waiting at their await
  db,                \* database: the rows of the table songs
  readings,          \* app: const [readings, setReadings]
  appSongs,          \* app: const [songs, setSongs]
  slideOrder,        \* app: const [slideOrder, setSlideOrder]
  presentation,      \* export: the argument of exportPresentation
  slideNumber,       \* export: let slideNumber
  printed,           \* export: the number printed on each slide added, in order
  logged,            \* export: the count written to the console
  requests,          \* aelf: the fetch calls made, with what came back
  serviceResponse    \* aelf: what getReadingsForDate resolved to

vars == <<mode, text, pc, sentences, sections, idx, currentChunk, currentWordCount,
          optimizedChunks, slideCount, slideTitles, chunksIn, storage, nextId, lastResult,
          hook, pending, db, readings, appSongs, slideOrder,
          presentation, slideNumber, printed, logged, requests, serviceResponse>>

packerVars == <<text, sentences, sections, idx, currentChunk, currentWordCount,
                optimizedChunks, slideCount, slideTitles>>
libraryVars == <<storage, nextId, lastResult>>
hookVars == <<hook, pending>>
appVars == <<readings, appSongs, slideOrder>>
exportVars == <<presentation, slideNumber, printed, logged>>
aelfVars == <<requests, serviceResponse>>
frontVars == <<appVars, exportVars, aelfVars>>

\* localStorage without the key STORAGE_KEY, and with a JSON array under it
NoStorage == [present |-> FALSE, items |-> <<>>]
Stored(items) == [present |-> TRUE, items |-> items]

\* The variables of the packer, and of the library, while the other one runs.
PackerIdle ==
  /\ text = <<>>
  /\ sentences = <<>>
  /\ sections = <<>>
  /\ idx = 1
  /\ currentChunk = [content |-> <<>>, units |-> <<>>]
  /\ currentWordCount = 0
  /\ optimizedChunks = <<>>
  /\ slideCount = 0
  /\ slideTitles = <<>>
  /\ chunksIn = <<>>

LibraryIdle ==
  /\ storage = NoStorage
  /\ nextId = 1
  /\ lastResult = [op |-> "none"]

\* useSongLibrary as useState creates it, and no call in flight
HookIdle ==
  /\ hook = [customSongs |-> <<>>, loading |-> TRUE, error |-> "null",
             lastSaveResult |-> [op |-> "none"]]
  /\ pending = <<>>

\* The database, not opened
DatabaseIdle == db = [songs |-> <<>>, history |-> <<>>, session |-> "none", calls |-> 0]

\* The component App as useState creates it, before any effect
AppIdle ==
  /\ readings = <<>>
  /\ appSongs = <<>>
  /\ slideOrder = <<>>

\* No export running
ExportIdle ==
  /\ presentation = [readings |-> <<>>, songs |-> <<>>, slideOrder |-> <<>>]
  /\ slideNumber = 1
  /\ printed = <<>>
  /\ logged = -1

\* No call of getReadingsForDate made
AelfIdle ==
  /\ requests = <<>>
  /\ serviceResponse = [kind |-> "none"]

----------------------------------------------------------------------------
(* Program constants *)

MIN_WORDS_PER_SLIDE == 80
MAX_WORDS_PER_SLIDE == 90
SHORT_SENTENCE_WORDS == 15

----------------------------------------------------------------------------
(* Strings *)

WhiteSpace == {" ", "\n"}
SentenceEnd == {".", "!", "?"}
Digit == {"0", "1", "2", "3", "4", "5", "6", "7", "8", "9"}

IsSpace(c) == c \in WhiteSpace

MinOf(S) == CHOOSE x \in S : \A y \in S : x <= y

\* String.prototype.trim
Trim(s) ==
  IF \A i \in 1..Len(s) : IsSpace(s[i]) THEN <<>>
  ELSE LET n == Len(s)
           a == CHOOSE i \in 1..n : ~IsSpace(s[i]) /\ \A k \in 1..(i - 1) : IsSpace(s[k])
           b == CHOOSE i \in 1..n : ~IsSpace(s[i]) /\ \A k \in (i + 1)..n : IsSpace(s[k])
       IN SubSeq(s, a, b)

\* The last index of the run of white space that starts at i.
RunEnd(s, i) ==
  CHOOSE j \in i..Len(s) :
    /\ \A k \in i..j : IsSpace(s[k])
    /\ (j = Len(s) \/ ~IsSpace(s[j + 1]))

\* The first index of the run of white space that holds i.
RunStart(s, i) ==
  CHOOSE j \in 1..i :
    /\ \A k \in j..i : IsSpace(s[k])
    /\ (j = 1 \/ ~IsSpace(s[j - 1]))

\* String.prototype.split for a separator whose matches are the given set of
\* <<first, last>> index pairs: the pieces between the matches, from `from` on.
RECURSIVE SplitAt(_, _, _)
SplitAt(s, from, matches) ==
  IF matches = {} THEN <<SubSeq(s, from, Len(s))>>
  ELSE LET first == MinOf({m[1] : m \in matches})
           m == CHOOSE mm \in matches : mm[1] = first
       IN <<SubSeq(s, from, m[1] - 1)>> \o SplitAt(s, m[2] + 1, matches \ {m})

\* Array.prototype.join
RECURSIVE Join(_, _)
Join(parts, sep) ==
  IF parts = <<>> THEN <<>>
  ELSE IF Len(parts) = 1 THEN parts[1]
  ELSE parts[1] \o sep \o Join(Tail(parts), sep)

\* s.replace(/\s+/g, ' ').trim(): the white-space-collapsed form of a string
Collapse(s) ==
  LET t == Trim(s)
      Keep(i) == ~IsSpace(t[i]) \/ ~IsSpace(t[i - 1])
      kept == SelectSeq([i \in 1..Len(t) |-> i], Keep)
  IN [k \in 1..Len(kept) |-> IF IsSpace(t[kept[k]]) THEN " " ELSE t[kept[k]]]

\* text.trim().split(/\s+/).filter(word => word.length > 0).length
countWords(s) ==
  Cardinality({i \in 1..Len(s) : ~IsSpace(s[i]) /\ (i = 1 \/ IsSpace(s[i - 1]))})

\* text.split(/(?<=[.!?])\s+/).map(trim).filter(length > 0): a match is a whole
\* run of white space that directly follows a sentence-terminal character.
splitIntoSentences(s) ==
  LET matches == {<<i, RunEnd(s, i)>> : i \in {j \in 2..Len(s) : IsSpace(s[j]) /\ s[j - 1] \in SentenceEnd}}
      pieces == SplitAt(s, 1, matches)
      trimmed == [k \in 1..Len(pieces) |-> Trim(pieces[k])]
      NonEmpty(p) == Len(p) > 0
  IN SelectSeq(trimmed, NonEmpty)

----------------------------------------------------------------------------
(* Chunks.  content and wordCount are the fields of the source; units and   *)
(* closedBy are history fields that no operation of the program reads:     *)
(* units lists the TextUnits appended to the chunk (a sentence index, or a *)
(* <<section, line>> pair), closedBy tells how the chunk was closed         *)
(* ("overflow", "full", "last", "whole" or "merged").                      *)

Chunk(content, wordCount, units, closedBy) ==
  [content |-> content, wordCount |-> wordCount, units |-> units, closedBy |-> closedBy]

\* currentChunk += (currentChunk ? ' ' : '') + sentence
AppendUnit(current, sep, unit) ==
  current \o (IF current # <<>> THEN sep ELSE <<>>) \o unit

\* The chunk mergeSmallChunks builds from two adjacent chunks.
\* A faulty variant of MergedChunk: the merged chunk keeps the count of its
\* first half.
MergedChunkKeepsCount(a, b) ==
  Chunk(a.content \o <<" ">> \o b.content, a.wordCount,
        a.units \o b.units, "merged")

MergedChunk(a, b) ==
  Chunk(a.content \o <<" ">> \o b.content, a.wordCount + b.wordCount,
        a.units \o b.units, "merged")

\* A faulty variant of MergeTest: a pair of exactly MAX words is not merged.
MergeTestBelowMax(chunks, i) ==
  /\ chunks[i].wordCount < MIN_WORDS_PER_SLIDE
  /\ i < Len(chunks)
  /\ chunks[i].wordCount + chunks[i + 1].wordCount < MAX_WORDS_PER_SLIDE

\* The condition under which mergeSmallChunks merges chunks[i] and chunks[i+1].
MergeTest(chunks, i) ==
  /\ chunks[i].wordCount < MIN_WORDS_PER_SLIDE
  /\ i < Len(chunks)
  /\ chunks[i].wordCount + chunks[i + 1].wordCount <= MAX_WORDS_PER_SLIDE

\* The for loop of mergeSmallChunks from index i on.
RECURSIVE MergeFrom(_, _)
MergeFrom(chunks, i) ==
  IF i > Len(chunks) THEN <<>>
  ELSE IF MergeTest(chunks, i)
       THEN <<MergedChunk(chunks[i], chunks[i + 1])>> \o MergeFrom(chunks, i + 2)
       ELSE <<chunks[i]>> \o MergeFrom(chunks, i + 1)

mergeSmallChunks(chunks) == MergeFrom(chunks, 1)

----------------------------------------------------------------------------
(* Reading mode: createOptimizedReadingSlides and                          *)
(* optimizeContentForWordCount, one action per step.                       *)

ReadingSlideTitle(index, total) == [base |-> "reading", number |-> <<>>, index |-> index, total |-> total]

\* The title slide of the reading; slideCount++.
ReadingTitleSlide ==
  /\ mode = "reading" /\ pc = "title"
  /\ slideCount' = slideCount + 1
  /\ pc' = "split"
  /\ UNCHANGED <<mode, text, sentences, sections, idx, currentChunk, currentWordCount,
                 optimizedChunks, slideTitles, chunksIn>>
  /\ UNCHANGED libraryVars
  /\ UNCHANGED <<hookVars, db>>
  /\ UNCHANGED frontVars

\* const sentences = this.splitIntoSentences(text); the accumulators start empty.
ReadingSplit ==
  /\ mode = "reading" /\ pc = "split"
  /\ sentences' = splitIntoSentences(text)
  /\ currentChunk' = [content |-> <<>>, units |-> <<>>]
  /\ currentWordCount' = 0
  /\ optimizedChunks' = <<>>
  /\ idx' = 1
  /\ pc' = "loop"
  /\ UNCHANGED <<mode, text, sections, slideCount, slideTitles, chunksIn>>
  /\ UNCHANGED libraryVars
  /\ UNCHANGED <<hookVars, db>>
  /\ UNCHANGED frontVars

\* A faulty variant of ExceedsMax: it compares the words already held, not the
\* words the chunk would hold, against the maximum.
ExceedsMaxTestsCount(potentialWordCount, count) ==
  count > MAX_WORDS_PER_SLIDE /\ count > 0

\* A faulty variant of ExceedsMax: the chunk is closed as soon as it would
\* hold more than MIN words.
ExceedsMaxAboveMin(potentialWordCount, count) ==
  potentialWordCount > MIN_WORDS_PER_SLIDE /\ count > 0

\* if (potentialWordCount > this.MAX_WORDS_PER_SLIDE && currentWordCount > 0)
ExceedsMax(potentialWordCount, count) ==
  potentialWordCount > MAX_WORDS_PER_SLIDE /\ count > 0

\* A faulty variant of ShortSentenceRule: it forgets the length of the sentence.
ShortSentenceRuleAnyLength(count, sentenceWordCount) ==
  count < MIN_WORDS_PER_SLIDE

\* A faulty variant of ShortSentenceRule: the sentence is measured against MIN.
ShortSentenceRuleUpToMin(count, sentenceWordCount) ==
  count < MIN_WORDS_PER_SLIDE /\ sentenceWordCount <= MIN_WORDS_PER_SLIDE

\* A faulty variant of ShortSentenceRule: an accumulator of exactly MIN words
\* still takes the short sentence.
ShortSentenceRuleAtMin(count, sentenceWordCount) ==
  count <= MIN_WORDS_PER_SLIDE /\ sentenceWordCount <= SHORT_SENTENCE_WORDS

\* if (currentWordCount < this.MIN_WORDS_PER_SLIDE && sentenceWordCount <= 15)
ShortSentenceRule(count, sentenceWordCount) ==
  count < MIN_WORDS_PER_SLIDE /\ sentenceWordCount <= SHORT_SENTENCE_WORDS

\* One iteration of for (const sentence of sentences).
ReadingStep ==
  /\ mode = "reading" /\ pc = "loop" /\ idx <= Len(sentences)
  /\ LET sentence == sentences[idx]
         sentenceWordCount == countWords(sentence)
         potentialWordCount == currentWordCount + sentenceWordCount
     IN IF ExceedsMax(potentialWordCount, currentWordCount)
        THEN LET short == ShortSentenceRule(currentWordCount, sentenceWordCount)
                 content == IF short THEN AppendUnit(currentChunk.content, <<" ">>, sentence)
                                     ELSE currentChunk.content
                 units == IF short THEN Append(currentChunk.units, idx) ELSE currentChunk.units
                 count == IF short THEN potentialWordCount ELSE currentWordCount
             IN /\ optimizedChunks' =
                     IF Trim(content) # <<>>
                     THEN Append(optimizedChunks,
                                 Chunk(Trim(content), count, units,
                                       IF short THEN "overflow" ELSE "full"))
                     ELSE optimizedChunks
                /\ currentChunk' = [content |-> sentence, units |-> <<idx>>]
                /\ currentWordCount' = sentenceWordCount
        ELSE /\ currentChunk' = [content |-> AppendUnit(currentChunk.content, <<" ">>, sentence),
                                 units |-> Append(currentChunk.units, idx)]
             /\ currentWordCount' = potentialWordCount
             /\ UNCHANGED optimizedChunks
  /\ idx' = idx + 1
  /\ UNCHANGED <<mode, text, pc, sentences, sections, slideCount, slideTitles, chunksIn>>
  /\ UNCHANGED libraryVars
  /\ UNCHANGED <<hookVars, db>>
  /\ UNCHANGED frontVars

\* After the loop: push the last chunk if it exists.
ReadingFlush ==
  /\ mode = "reading" /\ pc = "loop" /\ idx > Len(sentences)
  /\ optimizedChunks' =
       IF Trim(currentChunk.content) # <<>>
       THEN Append(optimizedChunks,
                   Chunk(Trim(currentChunk.content), currentWordCount, currentChunk.units, "last"))
       ELSE optimizedChunks
  /\ pc' = "merge"
  /\ UNCHANGED <<mode, text, sentences, sections, idx, currentChunk, currentWordCount,
                 slideCount, slideTitles, chunksIn>>
  /\ UNCHANGED libraryVars
  /\ UNCHANGED <<hookVars, db>>
  /\ UNCHANGED frontVars

\* return this.mergeSmallChunks(optimizedChunks)
ReadingMerge ==
  /\ mode = "reading" /\ pc = "merge"
  /\ optimizedChunks' = mergeSmallChunks(optimizedChunks)
  /\ pc' = "slides"
  /\ UNCHANGED <<mode, text, sentences, sections, idx, currentChunk, currentWordCount,
                 slideCount, slideTitles, chunksIn>>
  /\ UNCHANGED libraryVars
  /\ UNCHANGED <<hookVars, db>>
  /\ UNCHANGED frontVars

\* optimizedChunks.forEach(...): one slide per chunk; return slideCount.
ReadingContentSlides ==
  /\ mode = "reading" /\ pc = "slides"
  /\ slideTitles' = [i \in 1..Len(optimizedChunks) |-> ReadingSlideTitle(i, Len(optimizedChunks))]
  /\ slideCount' = slideCount + Len(optimizedChunks)
  /\ pc' = "done"
  /\ UNCHANGED <<mode, text, sentences, sections, idx, currentChunk, currentWordCount,
                 optimizedChunks, chunksIn>>
  /\ UNCHANGED libraryVars
  /\ UNCHANGED <<hookVars, db>>
  /\ UNCHANGED frontVars

----------------------------------------------------------------------------
(* Inputs of reading mode *)

MaxSentences == 3
ReadingWordCounts == {15, 16, 40, 50, 78, 95}
Letters == <<"a", "b", "c", "d", "e", "f", "g", "h", "i", "j", "k", "l">>

\* n words, each the letter l, separated by single spaces, closed by `end`.
Words(l, n, end) ==
  [i \in 1..(2 * n - 1) |-> IF i % 2 = 1 THEN l ELSE " "] \o end

\* A reading of the given sentence lengths.  Layout "tight": sentences closed
\* by "." and separated by one space; "loose": closed by "!" or "?", separated
\* by a space and a line break, with white space around the text; "open" is
\* tight with the last sentence left without its final period.
ReadingText(counts, layout) ==
  LET n == Len(counts)
      end(k) == IF layout = "tight" THEN <<".">>
                ELSE IF layout = "open" THEN (IF k = n THEN <<>> ELSE <<".">>)
                ELSE IF k % 2 = 1 THEN <<"!">> ELSE <<"?">>
      body == Join([k \in 1..n |-> Words(Letters[k], counts[k], end(k))],
                   IF layout = "loose" THEN <<" ", "\n">> ELSE <<" ">>)
  IN IF layout = "loose" THEN <<" ", " ">> \o body \o <<"\n">> ELSE body

SeqsUpTo(S, n) == UNION {[1..k -> S] : k \in 0..n}

ReadingTexts ==
  {ReadingText(counts, layout) :
     counts \in SeqsUpTo(ReadingWordCounts, MaxSentences), layout \in {"tight", "loose", "open"}}

\* The readings of the band edges: three sentences of 30 words (90 in all) and
\* five sentences of 20 words (100 in all).
ThreeThirties == ReadingText(<<30, 30, 30>>, "tight")

FiveTwenties == ReadingText(<<20, 20, 20, 20, 20>>, "tight")

BandEdgeTexts == {ThreeThirties, FiveTwenties}

----------------------------------------------------------------------------
(* Song mode: splitSongIntoSections, optimizeSongForWordCount,             *)
(* generateOptimizedVerseTitle and createOptimizedSongSlides.              *)

StartsWith(s, p) == Len(s) >= Len(p) /\ SubSeq(s, 1, Len(p)) = p

Includes(s, p) == \E i \in 1..(Len(s) - Len(p) + 1) : SubSeq(s, i, i + Len(p) - 1) = p

UpperToLower == [c \in {"R", "E", "F", "A", "I", "N", "K", "G"} |->
                   CASE c = "R" -> "r" [] c = "E" -> "e" [] c = "F" -> "f"
                     [] c = "A" -> "a" [] c = "I" -> "i" [] c = "N" -> "n"
                     [] c = "K" -> "k" [] c = "G" -> "g"]

\* String.prototype.toLowerCase, on the letters the inputs use
ToLowerCase(s) == [i \in 1..Len(s) |-> IF s[i] \in DOMAIN UpperToLower THEN UpperToLower[s[i]] ELSE s[i]]

\* The group (\d+) of /^(\d+)\./ on s, or <<>> when the expression does not match.
LeadingNumeral(s) ==
  LET n == CHOOSE k \in 0..Len(s) :
             /\ \A j \in 1..k : s[j] \in Digit
             /\ (k = Len(s) \/ s[k + 1] \notin Digit)
  IN IF n >= 1 /\ n < Len(s) /\ s[n + 1] = "." THEN SubSeq(s, 1, n) ELSE <<>>

\* The matches of /\n\s*\n/ in s: from the first line break of a run of white
\* space to the last line break of that run, when the run has two or more.
BlankLineMatches(s) ==
  LET IsFirstBreak(i) == s[i] = "\n" /\ \A k \in RunStart(s, i)..(i - 1) : s[k] # "\n"
      LastBreak(i) == CHOOSE k \in i..RunEnd(s, i) :
                        s[k] = "\n" /\ \A m \in (k + 1)..RunEnd(s, i) : s[m] # "\n"
  IN {<<i, LastBreak(i)>> : i \in {j \in 1..Len(s) : IsFirstBreak(j) /\ LastBreak(j) > j}}

\* The type splitSongIntoSections gives to a trimmed part.
SectionType(trimmedPart) ==
  IF StartsWith(trimmedPart, <<"R", "/">>)
     \/ Includes(ToLowerCase(trimmedPart), <<"r", "e", "f", "r", "a", "i", "n">>)
  THEN "refrain"
  ELSE IF LeadingNumeral(trimmedPart) # <<>> THEN "numbered_verse"
  ELSE "verse"

\* A faulty variant of splitSongIntoSections: it keeps the empty parts.
splitSongIntoSectionsKeepsEmpty(lyrics) ==
  LET parts == SplitAt(lyrics, 1, BlankLineMatches(lyrics))
      trimmed == [k \in 1..Len(parts) |-> Trim(parts[k])]
  IN [k \in 1..Len(trimmed) |-> [content |-> trimmed[k], type |-> SectionType(trimmed[k])]]

\* lyrics.split(/\n\s*\n/), each part trimmed, empty parts skipped, the rest typed
splitSongIntoSections(lyrics) ==
  LET parts == SplitAt(lyrics, 1, BlankLineMatches(lyrics))
      trimmed == [k \in 1..Len(parts) |-> Trim(parts[k])]
      NonEmpty(p) == Len(p) > 0
      kept == SelectSeq(trimmed, NonEmpty)
  IN [k \in 1..Len(kept) |-> [content |-> kept[k], type |-> SectionType(kept[k])]]

\* section.content.split('\n')
SplitLines(content) == SplitAt(content, 1, {<<i, i>> : i \in {j \in 1..Len(content) : content[j] = "\n"}})

SongChunk(content, wordCount, type, units, closedBy) ==
  [content |-> content, wordCount |-> wordCount, type |-> type,
   units |-> units, closedBy |-> closedBy]

\* A faulty variant of PackLines: the verse opened after a full one starts
\* empty instead of starting with the line that did not fit.
RECURSIVE PackLinesRestartsEmpty(_, _, _, _, _, _, _, _)
PackLinesRestartsEmpty(lines, k, currentVerse, count, units, type, sec, out) ==
  IF k > Len(lines)
  THEN IF Trim(currentVerse) # <<>>
       THEN Append(out, SongChunk(Trim(currentVerse), count, type, units, "last"))
       ELSE out
  ELSE LET line == lines[k]
           lineWordCount == countWords(line)
           potentialWordCount == count + lineWordCount
       IN IF potentialWordCount > MAX_WORDS_PER_SLIDE /\ count > 0
          THEN PackLinesRestartsEmpty(lines, k + 1, <<>>, 0, <<>>, type, sec,
                         Append(out, SongChunk(Trim(currentVerse), count, type, units, "full")))
          ELSE PackLinesRestartsEmpty(lines, k + 1, AppendUnit(currentVerse, <<"\n">>, line),
                         potentialWordCount, Append(units, <<sec, k>>), type, sec, out)

\* A faulty variant of PackLines: the verse opened after a full one starts
\* with the line that did not fit, and with a count of 0.
RECURSIVE PackLinesRestartsCount(_, _, _, _, _, _, _, _)
PackLinesRestartsCount(lines, k, currentVerse, count, units, type, sec, out) ==
  IF k > Len(lines)
  THEN IF Trim(currentVerse) # <<>>
       THEN Append(out, SongChunk(Trim(currentVerse), count, type, units, "last"))
       ELSE out
  ELSE LET line == lines[k]
           lineWordCount == countWords(line)
           potentialWordCount == count + lineWordCount
       IN IF potentialWordCount > MAX_WORDS_PER_SLIDE /\ count > 0
          THEN PackLinesRestartsCount(lines, k + 1, line, 0, <<<<sec, k>>>>, type, sec,
                         Append(out, SongChunk(Trim(currentVerse), count, type, units, "full")))
          ELSE PackLinesRestartsCount(lines, k + 1, AppendUnit(currentVerse, <<"\n">>, line),
                         potentialWordCount, Append(units, <<sec, k>>), type, sec, out)

\* for (const line of lines) of optimizeSongForWordCount, from line k on, and
\* the push of the last verse after it.  sec is the index of the section.
RECURSIVE PackLines(_, _, _, _, _, _, _, _)
PackLines(lines, k, currentVerse, count, units, type, sec, out) ==
  IF k > Len(lines)
  THEN IF Trim(currentVerse) # <<>>
       THEN Append(out, SongChunk(Trim(currentVerse), count, type, units, "last"))
       ELSE out
  ELSE LET line == lines[k]
           lineWordCount == countWords(line)
           potentialWordCount == count + lineWordCount
       IN IF potentialWordCount > MAX_WORDS_PER_SLIDE /\ count > 0
          THEN PackLines(lines, k + 1, line, lineWordCount, <<<<sec, k>>>>, type, sec,
                         Append(out, SongChunk(Trim(currentVerse), count, type, units, "full")))
          ELSE PackLines(lines, k + 1, AppendUnit(currentVerse, <<"\n">>, line),
                         potentialWordCount, Append(units, <<sec, k>>), type, sec, out)

\* A faulty variant of PackSection: the chunks are typed "verse" whatever the
\* section.
PackSectionUntyped(section, sec) ==
  LET wordCount == countWords(section.content)
      lines == SplitLines(section.content)
  IN IF wordCount <= MAX_WORDS_PER_SLIDE
     THEN <<SongChunk(section.content, wordCount, "verse",
                      [k \in 1..Len(lines) |-> <<sec, k>>], "whole")>>
     ELSE PackLines(lines, 1, <<>>, 0, <<>>, "verse", sec, <<>>)

\* The body of for (const section of sections): the chunks of one section.
PackSection(section, sec) ==
  LET wordCount == countWords(section.content)
      lines == SplitLines(section.content)
  IN IF wordCount <= MAX_WORDS_PER_SLIDE
     THEN <<SongChunk(section.content, wordCount, section.type,
                      [k \in 1..Len(lines) |-> <<sec, k>>], "whole")>>
     ELSE PackLines(lines, 1, <<>>, 0, <<>>, section.type, sec, <<>>)

\* `${n}` for a slide index
DigitOf == <<"1", "2", "3", "4", "5", "6", "7", "8", "9">>
RECURSIVE NumberToString(_)
NumberToString(n) ==
  IF n < 10 THEN <<DigitOf[n]>>
  ELSE NumberToString(n \div 10) \o (IF n % 10 = 0 THEN <<"0">> ELSE <<DigitOf[n % 10]>>)

\* A faulty variant of generateOptimizedVerseTitle: the suffix counts from 0.
generateOptimizedVerseTitleZeroBased(verse, songTitle, index, total) ==
  LET match == LeadingNumeral(verse.content)
      base == IF verse.type = "refrain" THEN [base |-> "Refrain", number |-> <<>>]
              ELSE IF verse.type = "numbered_verse"
                   THEN [base |-> "Couplet",
                         number |-> IF match # <<>> THEN match ELSE NumberToString(index)]
              ELSE [base |-> "Partie", number |-> NumberToString(index)]
  IN [song |-> songTitle, base |-> base.base, number |-> base.number,
      index |-> index - 1, total |-> total]

\* `${baseTitle} (${index}/${total})`, baseTitle chosen by the type of the verse
generateOptimizedVerseTitle(verse, songTitle, index, total) ==
  LET match == LeadingNumeral(verse.content)
      base == IF verse.type = "refrain" THEN [base |-> "Refrain", number |-> <<>>]
              ELSE IF verse.type = "numbered_verse"
                   THEN [base |-> "Couplet",
                         number |-> IF match # <<>> THEN match ELSE NumberToString(index)]
              ELSE [base |-> "Partie", number |-> NumberToString(index)]
  IN [song |-> songTitle, base |-> base.base, number |-> base.number,
      index |-> index, total |-> total]

\* The title slide of the song; slideCount++.
SongTitleSlide ==
  /\ mode = "song" /\ pc = "title"
  /\ slideCount' = slideCount + 1
  /\ pc' = "split"
  /\ UNCHANGED <<mode, text, sentences, sections, idx, currentChunk, currentWordCount,
                 optimizedChunks, slideTitles, chunksIn>>
  /\ UNCHANGED libraryVars
  /\ UNCHANGED <<hookVars, db>>
  /\ UNCHANGED frontVars

\* const sections = this.splitSongIntoSections(lyrics)
SongSplit ==
  /\ mode = "song" /\ pc = "split"
  /\ sections' = splitSongIntoSections(text)
  /\ optimizedChunks' = <<>>
  /\ idx' = 1
  /\ pc' = "loop"
  /\ UNCHANGED <<mode, text, sentences, currentChunk, currentWordCount,
                 slideCount, slideTitles, chunksIn>>
  /\ UNCHANGED libraryVars
  /\ UNCHANGED <<hookVars, db>>
  /\ UNCHANGED frontVars

\* One iteration of for (const section of sections).
SongStep ==
  /\ mode = "song" /\ pc = "loop" /\ idx <= Len(sections)
  /\ optimizedChunks' = optimizedChunks \o PackSection(sections[idx], idx)
  /\ idx' = idx + 1
  /\ UNCHANGED <<mode, text, pc, sentences, sections, currentChunk, currentWordCount,
                 slideCount, slideTitles, chunksIn>>
  /\ UNCHANGED libraryVars
  /\ UNCHANGED <<hookVars, db>>
  /\ UNCHANGED frontVars

\* return optimizedVerses, then optimizedVerses.forEach(...): one slide per
\* verse, titled by generateOptimizedVerseTitle(verse, song.title, index + 1, length).
SongContentSlides ==
  /\ mode = "song" /\ pc = "loop" /\ idx > Len(sections)
  /\ slideTitles' = [i \in 1..Len(optimizedChunks) |->
                       generateOptimizedVerseTitle(optimizedChunks[i], "MonChant", i,
                                                   Len(optimizedChunks))]
  /\ slideCount' = slideCount + Len(optimizedChunks)
  /\ pc' = "done"
  /\ UNCHANGED <<mode, text, sentences, sections, idx, currentChunk, currentWordCount,
                 optimizedChunks, chunksIn>>
  /\ UNCHANGED libraryVars
  /\ UNCHANGED <<hookVars, db>>
  /\ UNCHANGED frontVars

----------------------------------------------------------------------------
(* Inputs of song mode *)

MaxSections == 2
MaxLines == 2
LineWordCounts == {14, 78, 95}
SectionKinds == {"plain", "R/", "3.", "Refrain", "late"}

\* The marker word a section of the given kind opens with.
Marker(kind) ==
  CASE kind = "R/" -> <<"R", "/">>
    [] kind = "3." -> <<"3", ".">>
    [] kind = "Refrain" -> <<"R", "e", "f", "r", "a", "i", "n">>
    [] OTHER -> <<>>

\* A section of Len(counts) lines; line k has counts[k] words.  The first word
\* of the first line is the marker of the kind, if it has one; kind "late"
\* ends the last line with the word "refrain".
SectionText(shape, sec, layout) ==
  LET counts == shape.counts
      n == Len(counts)
      letter(k) == Letters[(sec - 1) * (MaxLines + 1) + k]
      line(k) ==
        LET first == IF k = 1 /\ Marker(shape.kind) # <<>> THEN Marker(shape.kind) ELSE <<letter(k)>>
            last == IF k = n /\ shape.kind = "late"
                    THEN <<"r", "e", "f", "r", "a", "i", "n">> ELSE <<letter(k)>>
        IN first \o <<" ">> \o Words(letter(k), counts[k] - 2, <<>>) \o <<" ">> \o last
  IN Join([k \in 1..n |-> line(k)], IF layout = "loose" THEN <<" ", "\n">> ELSE <<"\n">>)

\* The lyrics made of the given sections.  Layout "tight": sections separated
\* by one empty line; "loose": by a line holding a space and an empty line,
\* with line breaks and spaces around the lyrics.
SongLyrics(shapes, layout) ==
  LET body == Join([k \in 1..Len(shapes) |-> SectionText(shapes[k], k, layout)],
                   IF layout = "loose" THEN <<"\n", " ", "\n", "\n">> ELSE <<"\n", "\n">>)
  IN IF layout = "loose" THEN <<"\n", " ">> \o body \o <<" ", "\n">> ELSE body

SectionShapes ==
  {[kind |-> kind, counts |-> counts] :
     kind \in SectionKinds, counts \in SeqsUpTo(LineWordCounts, MaxLines) \ {<<>>}}

FillerShapes ==
  {[kind |-> "plain", counts |-> <<14>>], [kind |-> "R/", counts |-> <<14>>]}

\* Songs of up to MaxSections sections: one section of any shape, the others
\* short one-line sections.
SongShapes ==
  {<<>>} \cup
  UNION {{[k \in 1..n |-> IF k = f THEN shape ELSE fill[k]] :
            f \in 1..n, shape \in SectionShapes, fill \in [1..n -> FillerShapes]} :
         n \in 1..MaxSections}

SongTexts == {SongLyrics(shapes, layout) : shapes \in SongShapes, layout \in {"tight", "loose"}}

----------------------------------------------------------------------------
(* The packer: one export of one reading or of one song *)

Init ==
  /\ \/ mode = "reading" /\ text \in ReadingTexts \cup BandEdgeTexts
     \/ mode = "song" /\ text \in SongTexts
  /\ pc = "title"
  /\ sentences = <<>>
  /\ sections = <<>>
  /\ idx = 1
  /\ currentChunk = [content |-> <<>>, units |-> <<>>]
  /\ currentWordCount = 0
  /\ optimizedChunks = <<>>
  /\ slideCount = 0
  /\ slideTitles = <<>>
  /\ chunksIn = <<>>
  /\ LibraryIdle
  /\ HookIdle
  /\ AppIdle
  /\ ExportIdle
  /\ AelfIdle
  /\ DatabaseIdle

Next ==
  \/ ReadingTitleSlide
  \/ ReadingSplit
  \/ ReadingStep
  \/ ReadingFlush
  \/ ReadingMerge
  \/ ReadingContentSlides
  \/ SongTitleSlide
  \/ SongSplit
  \/ SongStep
  \/ SongContentSlides

Spec == Init /\ [][Next]_vars

----------------------------------------------------------------------------
(* Properties of the packer *)

Emitted(m) == mode = m /\ pc = "done"

Contents == [i \in 1..Len(optimizedChunks) |-> optimizedChunks[i].content]

\* The text of a TextUnit named in the units field of a chunk.
UnitText(u) ==
  IF mode = "reading" THEN sentences[u] ELSE SplitLines(sections[u[1]].content)[u[2]]

AllUnits ==
  IF mode = "reading" THEN 1..Len(sentences)
  ELSE UNION {{<<s, k>> : k \in 1..Len(SplitLines(sections[s].content))} : s \in 1..Len(sections)}

NextUnit(u) == IF mode = "reading" THEN u + 1 ELSE <<u[1], u[2] + 1>>

Last(q) == q[Len(q)]

\* C1: in reading mode, the contents of the emitted chunks, joined in order by
\* single spaces and white-space-collapsed, are the white-space-collapsed input.
ReadingContentPreserved ==
  Emitted("reading") => Collapse(Join(Contents, <<" ">>)) = Collapse(text)

\* C2: in song mode, the contents of the emitted chunks, joined in order and
\* white-space-collapsed, are the white-space-collapsed lyrics.
SongContentPreserved ==
  Emitted("song") => Collapse(Join(Contents, <<" ">>)) = Collapse(text)

\* A song of two or more sections of which one fits a slide and one is split by lines.
SongWholeAndSplit ==
  /\ Emitted("song")
  /\ Len(sections) >= 2
  /\ \E i, j \in 1..Len(optimizedChunks) :
       optimizedChunks[i].closedBy = "whole" /\ optimizedChunks[j].closedBy = "full"

\* The chunks the band is not asked of: closed by the overflow exception, or
\* made of one unit longer than MAX.
IsException(c) ==
  \/ c.closedBy = "overflow"
  \/ Len(c.units) = 1 /\ c.wordCount > MAX_WORDS_PER_SLIDE

\* C3 as stated: in reading mode every emitted chunk that is no exception has
\* MIN <= wordCount <= MAX.
BandRespect ==
  Emitted("reading") =>
    \A i \in 1..Len(optimizedChunks) :
      ~IsException(optimizedChunks[i]) =>
        /\ MIN_WORDS_PER_SLIDE <= optimizedChunks[i].wordCount
        /\ optimizedChunks[i].wordCount <= MAX_WORDS_PER_SLIDE

\* C3 as amended: in reading mode every emitted chunk that is no exception has
\* wordCount <= MAX, and has wordCount >= MIN unless it is the last chunk or
\* the sentence that follows it has more than 15 words.
BandRespectAmended ==
  Emitted("reading") =>
    \A i \in 1..Len(optimizedChunks) :
      LET c == optimizedChunks[i] IN
      ~IsException(c) =>
        /\ c.wordCount <= MAX_WORDS_PER_SLIDE
        /\ \/ c.wordCount >= MIN_WORDS_PER_SLIDE
           \/ i = Len(optimizedChunks)
           \/ /\ Last(c.units) + 1 <= Len(sentences)
              /\ countWords(sentences[Last(c.units) + 1]) > SHORT_SENTENCE_WORDS

\* A reading with a chunk under MIN that was closed by a long sentence and a
\* chunk inside the band.
SmallChunkBeforeLongSentence ==
  /\ Emitted("reading")
  /\ \E i, j \in 1..Len(optimizedChunks) :
       /\ i < Len(optimizedChunks)
       /\ optimizedChunks[i].closedBy = "full"
       /\ optimizedChunks[i].wordCount < MIN_WORDS_PER_SLIDE
       /\ optimizedChunks[j].wordCount >= MIN_WORDS_PER_SLIDE
       /\ optimizedChunks[j].wordCount <= MAX_WORDS_PER_SLIDE

\* C4: in both modes the content of every chunk is a run of whole consecutive
\* TextUnits, and a unit of more than MAX words is emitted and is the only unit
\* of every chunk that holds it.
NoUnitSplitting ==
  pc = "done" =>
    /\ \A i \in 1..Len(optimizedChunks) :
         LET c == optimizedChunks[i] IN
         /\ c.units # <<>>
         /\ \A k \in 1..(Len(c.units) - 1) : c.units[k + 1] = NextUnit(c.units[k])
         /\ c.content = Trim(Join([k \in 1..Len(c.units) |-> UnitText(c.units[k])],
                                  IF mode = "reading" THEN <<" ">> ELSE <<"\n">>))
         /\ \A k \in 1..Len(c.units) :
              countWords(UnitText(c.units[k])) > MAX_WORDS_PER_SLIDE => Len(c.units) = 1
    /\ \A u \in AllUnits :
         countWords(UnitText(u)) > MAX_WORDS_PER_SLIDE =>
           \E i \in 1..Len(optimizedChunks) : optimizedChunks[i].units = <<u>>

\* A reading whose oversized sentence has a sentence before it and one after it.
OversizedSentenceBetweenOthers ==
  /\ Emitted("reading")
  /\ \E i \in 1..Len(optimizedChunks) :
       /\ optimizedChunks[i].wordCount > MAX_WORDS_PER_SLIDE
       /\ Len(optimizedChunks[i].units) = 1
       /\ optimizedChunks[i].units[1] > 1
       /\ optimizedChunks[i].units[1] < Len(sentences)

\* The section a song chunk comes from.
SectionOf(c) == c.units[1][1]

ChunksOfSection(sec) == {j \in 1..Len(optimizedChunks) : SectionOf(optimizedChunks[j]) = sec}

ClassifiedByFirstLine ==
  (mode = "song" /\ pc \in {"loop", "done"}) =>
    \A s \in 1..Len(sections) :
      sections[s].type = SectionType(Trim(SplitLines(sections[s].content)[1]))

\* C7: every chunk of a numbered verse whose section starts with "N." is
\* titled "Couplet N".
NumberedVerseTitles ==
  Emitted("song") =>
    \A i \in 1..Len(optimizedChunks) :
      LET section == sections[SectionOf(optimizedChunks[i])] IN
      (section.type = "numbered_verse" /\ LeadingNumeral(section.content) # <<>>) =>
        /\ slideTitles[i].base = "Couplet"
        /\ slideTitles[i].number = LeadingNumeral(section.content)

\* C8: a reading text or lyrics without any word gives no chunk, and its export
\* adds the title slide only.
EmptyInputTitleSlideOnly ==
  (pc = "done" /\ Trim(text) = <<>>) =>
    /\ optimizedChunks = <<>>
    /\ slideTitles = <<>>
    /\ slideCount = 1

\* The export of a song whose lyrics are white space only has ended.
BlankLyricsExported ==
  /\ Emitted("song")
  /\ text # <<>>
  /\ Trim(text) = <<>>

WordCounts == [i \in 1..Len(optimizedChunks) |-> optimizedChunks[i].wordCount]

\* C17: in song mode no chunk of at least 1 and fewer than MIN words is
\* followed, within its section, by a chunk opened with a line of at most 15
\* words that would have taken the chunk over MAX: such a line is appended to
\* the chunk by the overflow exception.
SongOverflowException ==
  Emitted("song") =>
    \A j \in 1..(Len(optimizedChunks) - 1) :
      LET c == optimizedChunks[j]
          d == optimizedChunks[j + 1]
          lineWordCount == countWords(UnitText(d.units[1]))
      IN SectionOf(c) = SectionOf(d) =>
           ~ /\ c.wordCount >= 1
             /\ c.wordCount < MIN_WORDS_PER_SLIDE
             /\ lineWordCount <= SHORT_SENTENCE_WORDS
             /\ c.wordCount + lineWordCount > MAX_WORDS_PER_SLIDE

\* C18: in reading mode a chunk of two or more sentences has more than MAX
\* words only if the overflow exception closed it, and then it has at most
\* MAX + 15 words.
BoundedOverflow ==
  Emitted("reading") =>
    \A i \in 1..Len(optimizedChunks) :
      LET c == optimizedChunks[i] IN
      (Len(c.units) >= 2 /\ c.wordCount > MAX_WORDS_PER_SLIDE) =>
        /\ c.closedBy = "overflow"
        /\ c.wordCount <= MAX_WORDS_PER_SLIDE + SHORT_SENTENCE_WORDS

\* A reading with a chunk of several sentences that the overflow exception
\* took over MAX.
OverflowChunkOverMax ==
  /\ Emitted("reading")
  /\ \E i \in 1..Len(optimizedChunks) :
       /\ optimizedChunks[i].closedBy = "overflow"
       /\ Len(optimizedChunks[i].units) >= 2
       /\ optimizedChunks[i].wordCount > MAX_WORDS_PER_SLIDE

\* C20: in reading mode a sentence that brings the accumulator to exactly MAX
\* words is appended, and an accumulator of exactly MIN words is closed as it
\* is when the next sentence would take it over MAX; three sentences of 30
\* words give one chunk of 90, five sentences of 20 words give chunks of 80
\* and 20, which mergeSmallChunks leaves as they are.
StrictBandEdges ==
  /\ [](Emitted("reading") =>
          /\ text = ThreeThirties => WordCounts = <<90>>
          /\ text = FiveTwenties =>
               /\ WordCounts = <<80, 20>>
               /\ mergeSmallChunks(optimizedChunks) = optimizedChunks)
  /\ [][(mode = "reading" /\ pc = "loop" /\ idx' = idx + 1) =>
          LET sentenceWordCount == countWords(sentences[idx]) IN
          /\ (currentWordCount + sentenceWordCount = MAX_WORDS_PER_SLIDE) =>
               /\ optimizedChunks' = optimizedChunks
               /\ currentWordCount' = MAX_WORDS_PER_SLIDE
               /\ currentChunk'.units = Append(currentChunk.units, idx)
          /\ (/\ currentWordCount = MIN_WORDS_PER_SLIDE
              /\ currentWordCount + sentenceWordCount > MAX_WORDS_PER_SLIDE) =>
               /\ Len(optimizedChunks') = Len(optimizedChunks) + 1
               /\ Last(optimizedChunks').wordCount = MIN_WORDS_PER_SLIDE
               /\ Last(optimizedChunks').units = currentChunk.units
               /\ currentChunk'.units = <<idx>>
               /\ currentWordCount' = sentenceWordCount]_vars

\* The reading of five 20-word sentences has been packed into 80 and 20 words.
FiveTwentiesPacked ==
  /\ Emitted("reading")
  /\ text = FiveTwenties
  /\ WordCounts = <<80, 20>>

\* C21: every song chunk holds lines of one section only and carries the type
\* of that section; the chunks come in the order of the sections; a section of
\* at most MAX words gives exactly one chunk, the section itself, so that two
\* small sections that follow each other stay two chunks.
SongChunksWithinSections ==
  Emitted("song") =>
    /\ \A i \in 1..Len(optimizedChunks) :
         LET c == optimizedChunks[i]
             sec == SectionOf(c)
             lines == SplitLines(sections[sec].content)
         IN /\ \A k \in 1..Len(c.units) : c.units[k][1] = sec
            /\ c.content = Trim(Join([k \in 1..Len(c.units) |-> lines[c.units[k][2]]], <<"\n">>))
            /\ c.type = sections[sec].type
            /\ \A j \in (i + 1)..Len(optimizedChunks) : sec <= SectionOf(optimizedChunks[j])
    /\ \A sec \in 1..Len(sections) :
         /\ ChunksOfSection(sec) # {}
         /\ countWords(sections[sec].content) <= MAX_WORDS_PER_SLIDE =>
              /\ Cardinality(ChunksOfSection(sec)) = 1
              /\ \A j \in ChunksOfSection(sec) :
                   optimizedChunks[j].content = sections[sec].content

\* A song whose two small sections of different types, which one slide could
\* hold together, have been emitted as two chunks.
SmallSectionsKeptApart ==
  /\ Emitted("song")
  /\ \E j \in 1..(Len(optimizedChunks) - 1) :
       /\ SectionOf(optimizedChunks[j]) # SectionOf(optimizedChunks[j + 1])
       /\ optimizedChunks[j].type # optimizedChunks[j + 1].type
       /\ optimizedChunks[j].wordCount < MIN_WORDS_PER_SLIDE
       /\ optimizedChunks[j].wordCount + optimizedChunks[j + 1].wordCount <= MAX_WORDS_PER_SLIDE

RECURSIVE SumUnitWords(_)
SumUnitWords(units) ==
  IF units = <<>> THEN 0 ELSE countWords(UnitText(units[1])) + SumUnitWords(Tail(units))

\* C22: in reading mode, before and after mergeSmallChunks, and in song mode,
\* the wordCount of every chunk is the sum of the word counts of its units and
\* the number of words of its content, and no chunk has wordCount 0 or an
\* empty content.
WordCountConsistent ==
  \A i \in 1..Len(optimizedChunks) :
    LET c == optimizedChunks[i] IN
    /\ c.wordCount = SumUnitWords(c.units)
    /\ c.wordCount = countWords(c.content)
    /\ c.wordCount > 0
    /\ c.content # <<>>

\* A song with a section of several lines packed line by line into two chunks.
SongSectionInSeveralChunks ==
  /\ Emitted("song")
  /\ \E i, j \in 1..Len(optimizedChunks) :
       /\ i < j
       /\ SectionOf(optimizedChunks[i]) = SectionOf(optimizedChunks[j])
       /\ optimizedChunks[i].closedBy = "full"
       /\ optimizedChunks[j].closedBy = "last"

\* C25: the chunks the loop of optimizeContentForWordCount hands to
\* mergeSmallChunks are such that, of any two that follow each other, the
\* first has MIN words or more or the two together have more than MAX words;
\* mergeSmallChunks returns them unchanged.
MergeIsIdentityOnPackerOutput ==
  (mode = "reading" /\ pc = "merge") =>
    /\ \A j \in 1..(Len(optimizedChunks) - 1) :
         \/ optimizedChunks[j].wordCount >= MIN_WORDS_PER_SLIDE
         \/ optimizedChunks[j].wordCount + optimizedChunks[j + 1].wordCount > MAX_WORDS_PER_SLIDE
    /\ mergeSmallChunks(optimizedChunks) = optimizedChunks

\* The loop has ended with a chunk under MIN that another chunk follows.
SmallChunkHandedToMerge ==
  /\ mode = "reading"
  /\ pc = "merge"
  /\ \E j \in 1..(Len(optimizedChunks) - 1) :
       optimizedChunks[j].wordCount < MIN_WORDS_PER_SLIDE

----------------------------------------------------------------------------
(* The merge pass on any list of chunks *)

MaxChunks == 4
MergeWordCounts == {30, 50, 60, 85}

\* Chunk lists of up to MaxChunks chunks; chunk k holds wordCount words of letter k.
MergeInputs ==
  {[k \in 1..Len(counts) |-> Chunk(Words(Letters[k], counts[k], <<>>), counts[k], <<k>>, "input")] :
     counts \in SeqsUpTo(MergeWordCounts, MaxChunks)}

InitMerge ==
  /\ mode = "merge"
  /\ pc = "merge"
  /\ chunksIn \in MergeInputs
  /\ text = <<>>
  /\ sentences = <<>>
  /\ sections = <<>>
  /\ idx = 1
  /\ currentChunk = [content |-> <<>>, units |-> <<>>]
  /\ currentWordCount = 0
  /\ optimizedChunks = <<>>
  /\ slideCount = 0
  /\ slideTitles = <<>>
  /\ LibraryIdle
  /\ HookIdle
  /\ AppIdle
  /\ ExportIdle
  /\ AelfIdle
  /\ DatabaseIdle

\* One call of mergeSmallChunks(chunksIn).
MergePass ==
  /\ mode = "merge" /\ pc = "merge"
  /\ optimizedChunks' = mergeSmallChunks(chunksIn)
  /\ pc' = "done"
  /\ UNCHANGED <<mode, text, sentences, sections, idx, currentChunk, currentWordCount,
                 slideCount, slideTitles, chunksIn>>
  /\ UNCHANGED libraryVars
  /\ UNCHANGED <<hookVars, db>>
  /\ UNCHANGED frontVars

NextMerge == MergePass

SpecMerge == InitMerge /\ [][NextMerge]_vars

Unmerged(c) == c.closedBy # "merged"

\* C9: the output of one mergeSmallChunks pass holds no two adjacent chunks
\* that were both left unmerged, both have wordCount < MIN and together have
\* at most MAX words.
MergeLocallyMaximal ==
  Emitted("merge") =>
    \A j \in 1..(Len(optimizedChunks) - 1) :
      ~ /\ Unmerged(optimizedChunks[j])
        /\ Unmerged(optimizedChunks[j + 1])
        /\ optimizedChunks[j].wordCount < MIN_WORDS_PER_SLIDE
        /\ optimizedChunks[j + 1].wordCount < MIN_WORDS_PER_SLIDE
        /\ optimizedChunks[j].wordCount + optimizedChunks[j + 1].wordCount <= MAX_WORDS_PER_SLIDE

\* A pass that merged a pair and left two adjacent small chunks unmerged.
MergedPairAndSmallNeighbours ==
  /\ Emitted("merge")
  /\ \E j \in 1..Len(optimizedChunks) : ~Unmerged(optimizedChunks[j])
  /\ \E j \in 1..(Len(optimizedChunks) - 1) :
       /\ Unmerged(optimizedChunks[j])
       /\ Unmerged(optimizedChunks[j + 1])
       /\ optimizedChunks[j].wordCount < MIN_WORDS_PER_SLIDE
       /\ optimizedChunks[j + 1].wordCount < MIN_WORDS_PER_SLIDE

\* The chunk that mergeSmallChunks makes of the input chunks from..to.
MergeOf(from, to) ==
  IF to = from THEN chunksIn[from]
  ELSE Chunk(chunksIn[from].content \o <<" ">> \o chunksIn[to].content,
             chunksIn[from].wordCount + chunksIn[to].wordCount,
             <<from, to>>, "merged")

RECURSIVE SumWordCounts(_)
SumWordCounts(chunks) ==
  IF chunks = <<>> THEN 0 ELSE chunks[1].wordCount + SumWordCounts(Tail(chunks))

\* C19: every chunk mergeSmallChunks returns is one input chunk unchanged or
\* two adjacent input chunks merged, content joined by one space and wordCount
\* the sum; the returned chunks take the input chunks in order, each once; the
\* total of the word counts is kept; word counts 30, 30, 30 give 60, 30.
SingleMergePass ==
  Emitted("merge") =>
    /\ \A j \in 1..Len(optimizedChunks) :
         LET c == optimizedChunks[j] IN
         /\ Len(c.units) \in {1, 2}
         /\ c = MergeOf(c.units[1], Last(c.units))
         /\ Last(c.units) = c.units[1] + Len(c.units) - 1
         /\ c.units[1] = IF j = 1 THEN 1 ELSE Last(optimizedChunks[j - 1].units) + 1
    /\ optimizedChunks = <<>> <=> chunksIn = <<>>
    /\ optimizedChunks # <<>> => Last(Last(optimizedChunks).units) = Len(chunksIn)
    /\ SumWordCounts(optimizedChunks) = SumWordCounts(chunksIn)
    /\ [i \in 1..Len(chunksIn) |-> chunksIn[i].wordCount] = <<30, 30, 30>> =>
         WordCounts = <<60, 30>>

\* Three chunks of 30 words have been merged into 60 and 30.
ThreeThirtiesMerged ==
  /\ Emitted("merge")
  /\ [i \in 1..Len(chunksIn) |-> chunksIn[i].wordCount] = <<30, 30, 30>>
  /\ WordCounts = <<60, 30>>

----------------------------------------------------------------------------
(* The custom song library (SongLibraryService).                           *)
(*                                                                         *)
(* A JSON value is a record: t is what typeof gives ("undefined" for a     *)
(* property the object does not have, "object" for a Date, "null" for      *)
(* null), v its value.  A stored song is a record of such values.          *)

MAX_CUSTOM_SONGS == 100
MAX_TITLE_LENGTH == 200
MAX_LYRICS_LENGTH == 10000

Undefined == [t |-> "undefined", v |-> <<>>]
Null == [t |-> "null", v |-> <<>>]
Str(chars) == [t |-> "string", v |-> chars]
True == [t |-> "boolean", v |-> <<"1">>]
\* A Date, v its toISOString(); the Invalid Date has none.
DateObject(iso) == [t |-> "object", v |-> iso]
InvalidDate == [t |-> "object", v |-> <<"N", "a", "N">>]

\* The truth value JavaScript gives to a value in a condition.
Truthy(x) == x.t \notin {"undefined", "null"} /\ ~(x.t = "string" /\ x.v = <<>>)

\* isValidCustomSong(song)
isValidCustomSong(song) ==
  /\ song.id.t = "string"
  /\ song.title.t = "string"
  /\ song.lyrics.t = "string"
  /\ song.category.t = "string"
  /\ song.isCustom = True
  /\ Truthy(song.createdAt)
  /\ Truthy(song.updatedAt)

\* Date strings are written with the year only: "2025" for a date-only
\* string, "2025Z" for the ISO string toISOString() gives.
IsYear(s) == Len(s) = 4 /\ \A i \in 1..4 : s[i] \in Digit

ParsesAsDate(s) == IsYear(s) \/ (Len(s) = 5 /\ IsYear(SubSeq(s, 1, 4)) /\ s[5] = "Z")

\* new Date(value) for a string: the date it parses to, or the Invalid Date
NewDate(x) ==
  IF x.t = "string" /\ ParsesAsDate(x.v) THEN DateObject(SubSeq(x.v, 1, 4) \o <<"Z">>)
  ELSE InvalidDate

\* What JSON.stringify, then JSON.parse, make of a value: a Date becomes
\* its ISO string, the Invalid Date becomes null (Date.prototype.toJSON).
Json(x) == IF x.t # "object" THEN x ELSE IF x = InvalidDate THEN Null ELSE Str(x.v)

JsonSong(song) == [f \in DOMAIN song |-> Json(song[f])]

\* JSON.stringify(songs) as localStorage.setItem stores it
JsonSongs(songs) == [k \in 1..Len(songs) |-> JsonSong(songs[k])]

\* getCustomSongs(): the valid stored songs, their dates made Date objects
getCustomSongs(store) ==
  IF ~store.present THEN <<>>
  ELSE LET valid == SelectSeq(store.items, isValidCustomSong)
       IN [k \in 1..Len(valid) |->
             [valid[k] EXCEPT !.createdAt = NewDate(valid[k].createdAt),
                              !.updatedAt = NewDate(valid[k].updatedAt)]]

\* validateSongData(song): the error message, or "valid" when the song is valid
validateSongData(song) ==
  IF ~Truthy(song.title) \/ Len(Trim(song.title.v)) = 0 THEN "Le titre est requis"
  ELSE IF ~Truthy(song.lyrics) \/ Len(Trim(song.lyrics.v)) = 0 THEN "Les paroles sont requises"
  ELSE IF Len(song.title.v) > MAX_TITLE_LENGTH THEN "Le titre est trop long (max 200 caractères)"
  ELSE IF Len(song.lyrics.v) > MAX_LYRICS_LENGTH
       THEN "Les paroles sont trop longues (max 10000 caractères)"
  ELSE "valid"

\* `custom-${Date.now()}-${random}`: a fresh identifier
generateUniqueId(n) == Str(<<"c", "u", "s", "t", "o", "m", "-">> \o NumberToString(n))

Now == Str(<<"2", "0", "2", "5", "Z">>)

LimitError == "Limite de 100 chants personnalisés atteinte"

\* A faulty variant of LimitReached: the library may grow by one more song.
LimitReachedAbove(existingSongs) ==
  Len(existingSongs) > MAX_CUSTOM_SONGS

\* existingSongs.length >= this.MAX_CUSTOM_SONGS
LimitReached(existingSongs) ==
  Len(existingSongs) >= MAX_CUSTOM_SONGS

\* saveToLibrary(song) on the localStorage store, n the source of the new
\* identifier: what it returns and what it leaves in localStorage.  The
\* field song of the result keeps the argument.
saveToLibrary(store, n, song) ==
  LET validation == validateSongData(song)
      existingSongs == getCustomSongs(store)
      customSong == [id |-> generateUniqueId(n), title |-> song.title,
                     lyrics |-> song.lyrics, category |-> song.category,
                     createdAt |-> DateObject(Now.v), updatedAt |-> DateObject(Now.v),
                     isCustom |-> True]
  IN IF validation # "valid"
     THEN [result |-> [op |-> "save", success |-> FALSE, error |-> validation, song |-> song],
           storage |-> store]
     ELSE IF LimitReached(existingSongs)
     THEN [result |-> [op |-> "save", success |-> FALSE, error |-> LimitError, song |-> song],
           storage |-> store]
     ELSE [result |-> [op |-> "save", success |-> TRUE, savedSong |-> customSong, song |-> song],
           storage |-> Stored(JsonSongs(Append(existingSongs, customSong)))]

\* removeFromLibrary(songId)
removeFromLibrary(store, songId) ==
  LET existingSongs == getCustomSongs(store)
      Other(song) == song.id # songId
      filteredSongs == SelectSeq(existingSongs, Other)
  IN IF Len(filteredSongs) = Len(existingSongs)
     THEN [result |-> [op |-> "remove", success |-> FALSE], storage |-> store]
     ELSE [result |-> [op |-> "remove", success |-> TRUE],
           storage |-> Stored(JsonSongs(filteredSongs))]

\* { ...existingSongs[songIndex], ...updates, updatedAt: new Date() }
Spread(song, updates) ==
  [f \in DOMAIN song |->
     IF f = "updatedAt" THEN DateObject(Now.v)
     ELSE IF f \in DOMAIN updates /\ updates[f] # Undefined THEN updates[f]
     ELSE song[f]]

\* A faulty variant of updateInLibrary: the song is stored before it is validated.
updateInLibraryStoresFirst(store, songId, updates) ==
  LET existingSongs == getCustomSongs(store)
      found == {k \in 1..Len(existingSongs) : existingSongs[k].id = songId}
  IN IF found = {}
     THEN [result |-> [op |-> "update", success |-> FALSE,
                       error |-> "Chant non trouvé dans la bibliothèque"],
           storage |-> store]
     ELSE LET songIndex == MinOf(found)
              updatedSong == Spread(existingSongs[songIndex], updates)
              validation == validateSongData(updatedSong)
              written == Stored(JsonSongs([existingSongs EXCEPT ![songIndex] = updatedSong]))
          IN IF validation # "valid"
             THEN [result |-> [op |-> "update", success |-> FALSE, error |-> validation],
                   storage |-> written]
             ELSE [result |-> [op |-> "update", success |-> TRUE, savedSong |-> updatedSong],
                   storage |-> written]

\* updateInLibrary(songId, updates)
updateInLibrary(store, songId, updates) ==
  LET existingSongs == getCustomSongs(store)
      found == {k \in 1..Len(existingSongs) : existingSongs[k].id = songId}
  IN IF found = {}
     THEN [result |-> [op |-> "update", success |-> FALSE,
                       error |-> "Chant non trouvé dans la bibliothèque"],
           storage |-> store]
     ELSE LET songIndex == MinOf(found)
              updatedSong == Spread(existingSongs[songIndex], updates)
              validation == validateSongData(updatedSong)
          IN IF validation # "valid"
             THEN [result |-> [op |-> "update", success |-> FALSE, error |-> validation],
                   storage |-> store]
             ELSE [result |-> [op |-> "update", success |-> TRUE, savedSong |-> updatedSong],
                   storage |-> Stored(JsonSongs([existingSongs EXCEPT
                                                   ![songIndex] = updatedSong]))]

\* A text handed to JSON.parse: whether it parses, whether it parses to an
\* array, and the entries of that array.
JsonArray(items) == [parses |-> TRUE, array |-> TRUE, items |-> items]
NotJson == [parses |-> FALSE, array |-> FALSE, items |-> <<>>]
JsonObject == [parses |-> TRUE, array |-> FALSE, items |-> <<>>]

\* exportLibrary(): JSON.stringify(this.getCustomSongs(), null, 2)
exportLibrary(store) == JsonArray(JsonSongs(getCustomSongs(store)))

\* importedSongs.filter(...).slice(0, MAX_CUSTOM_SONGS)
Slice(songs, n) == SubSeq(songs, 1, IF Len(songs) < n THEN Len(songs) ELSE n)

\* importLibrary(jsonData); the field jsonData of the result keeps the argument.
importLibrary(store, jsonData) ==
  IF ~jsonData.parses
  THEN [result |-> [op |-> "import", success |-> FALSE, imported |-> 0,
                    error |-> "Unexpected token", jsonData |-> jsonData],
        storage |-> store]
  ELSE IF ~jsonData.array
  THEN [result |-> [op |-> "import", success |-> FALSE, imported |-> 0,
                    error |-> "Format de données invalide", jsonData |-> jsonData],
        storage |-> store]
  ELSE LET validSongs == Slice(SelectSeq(jsonData.items, isValidCustomSong), MAX_CUSTOM_SONGS)
       IN [result |-> [op |-> "import", success |-> TRUE, imported |-> Len(validSongs),
                       jsonData |-> jsonData],
           storage |-> Stored(JsonSongs(validSongs))]

\* One call of saveToLibrary(song)
SaveToLibrary(song) ==
  /\ mode = "library"
  /\ LET call == saveToLibrary(storage, nextId, song)
     IN /\ storage' = call.storage
        /\ lastResult' = call.result
        /\ nextId' = IF call.result.success THEN nextId + 1 ELSE nextId
  /\ UNCHANGED <<mode, pc, chunksIn>>
  /\ UNCHANGED packerVars
  /\ UNCHANGED <<hookVars, db>>
  /\ UNCHANGED frontVars

\* One call of removeFromLibrary(songId)
RemoveFromLibrary(songId) ==
  /\ mode = "library"
  /\ LET call == removeFromLibrary(storage, songId)
     IN /\ storage' = call.storage
        /\ lastResult' = call.result
  /\ UNCHANGED <<mode, pc, chunksIn, nextId>>
  /\ UNCHANGED packerVars
  /\ UNCHANGED <<hookVars, db>>
  /\ UNCHANGED frontVars

\* One call of updateInLibrary(songId, updates)
UpdateInLibrary(songId, updates) ==
  /\ mode = "library"
  /\ LET call == updateInLibrary(storage, songId, updates)
     IN /\ storage' = call.storage
        /\ lastResult' = call.result
  /\ UNCHANGED <<mode, pc, chunksIn, nextId>>
  /\ UNCHANGED packerVars
  /\ UNCHANGED <<hookVars, db>>
  /\ UNCHANGED frontVars

\* cleanupLibrary(); lastResult keeps the storage the call found.
CleanupLibrary ==
  /\ mode = "library"
  /\ LET songs == getCustomSongs(storage)
         validSongs == SelectSeq(songs, isValidCustomSong)
     IN IF Len(validSongs) # Len(songs)
        THEN /\ storage' = Stored(JsonSongs(validSongs))
             /\ lastResult' = [op |-> "cleanup", removedCount |-> Len(songs) - Len(validSongs),
                               before |-> storage]
        ELSE /\ lastResult' = [op |-> "cleanup", removedCount |-> 0, before |-> storage]
             /\ UNCHANGED storage
  /\ UNCHANGED <<mode, pc, chunksIn, nextId>>
  /\ UNCHANGED packerVars
  /\ UNCHANGED <<hookVars, db>>
  /\ UNCHANGED frontVars

\* One call of exportLibrary()
ExportLibrary ==
  /\ mode = "library"
  /\ lastResult' = [op |-> "export", json |-> exportLibrary(storage)]
  /\ UNCHANGED <<mode, pc, chunksIn, storage, nextId>>
  /\ UNCHANGED packerVars
  /\ UNCHANGED <<hookVars, db>>
  /\ UNCHANGED frontVars

\* One call of importLibrary(jsonData)
ImportLibrary(jsonData) ==
  /\ mode = "library"
  /\ LET call == importLibrary(storage, jsonData)
     IN /\ storage' = call.storage
        /\ lastResult' = call.result
  /\ UNCHANGED <<mode, pc, chunksIn, nextId>>
  /\ UNCHANGED packerVars
  /\ UNCHANGED <<hookVars, db>>
  /\ UNCHANGED frontVars

\* localStorage.setItem(STORAGE_KEY, JSON.stringify(items)) by the page
\* itself, as the tests of the library do to store damaged entries.
SetItem(items) ==
  /\ mode = "library"
  /\ storage' = Stored(items)
  /\ lastResult' = [op |-> "setItem"]
  /\ UNCHANGED <<mode, pc, chunksIn, nextId>>
  /\ UNCHANGED packerVars
  /\ UNCHANGED <<hookVars, db>>
  /\ UNCHANGED frontVars

\* localStorage.clear() by the page itself
ClearStorage ==
  /\ mode = "library"
  /\ storage' = NoStorage
  /\ lastResult' = [op |-> "clear"]
  /\ UNCHANGED <<mode, pc, chunksIn, nextId>>
  /\ UNCHANGED packerVars
  /\ UNCHANGED <<hookVars, db>>
  /\ UNCHANGED frontVars

----------------------------------------------------------------------------
(* Inputs of the library *)

MaxSaved == 2
MaxRawEntries == 3
MaxImported == 2

NoSong == [id |-> Undefined, title |-> Undefined, lyrics |-> Undefined, category |-> Undefined,
           createdAt |-> Undefined, updatedAt |-> Undefined, isCustom |-> Undefined]

ValidSong(id) ==
  [NoSong EXCEPT !.id = Str(id), !.title = Str(<<"V">>), !.lyrics = Str(<<"l">>),
                 !.category = Str(<<"e">>), !.createdAt = Now, !.updatedAt = Now,
                 !.isCustom = True]

\* The entries of the cleanup test: a valid song, a song with id and title
\* only, a song with an id only.
RawEntries ==
  {ValidSong(<<"v">>),
   [NoSong EXCEPT !.id = Str(<<"x">>), !.title = Str(<<"X">>)],
   [NoSong EXCEPT !.id = Str(<<"y">>)]}

\* The entries of an imported file: those, and a song whose dates are not dates.
ImportedEntries ==
  RawEntries \cup
    {[ValidSong(<<"d">>) EXCEPT !.createdAt = Str(<<"?">>), !.updatedAt = Str(<<"?">>)]}

\* The library of the limit test: n valid songs
ManySongs(n) == [k \in 1..n |-> ValidSong(<<"s">> \o NumberToString(k))]

SongInputs ==
  {[title |-> title, lyrics |-> lyrics, category |-> Str(<<"e">>)] :
     title \in {Str(<<"T">>), Str(<<" ">>), Undefined}, lyrics \in {Str(<<"l">>), Str(<<>>)}}

UpdateInputs ==
  {[title |-> Str(<<"U">>)], [title |-> Str(<<" ">>)], [lyrics |-> Str(<<"m">>)],
   [lyrics |-> Str(<<>>)]}

SongIds == {Str(<<"v">>), Str(<<"d">>), Str(<<"s", "1">>)}
             \cup {generateUniqueId(n) : n \in 1..MaxSaved}

\* What exportLibrary gives for the libraries of up to MaxImported entries
ExportedLibraries ==
  {exportLibrary(Stored(items)) : items \in SeqsUpTo(ImportedEntries, MaxImported)}

\* What the page stores itself: the entries in any order, each at most once
RawLists ==
  {items \in SeqsUpTo(RawEntries, MaxRawEntries) :
     \A i, j \in 1..Len(items) : i # j => items[i] # items[j]}

ImportInputs ==
  {NotJson, JsonObject}
    \cup {JsonArray(items) : items \in SeqsUpTo(ImportedEntries, MaxImported)}
    \cup ExportedLibraries
    \cup {JsonArray(ManySongs(n)) : n \in {MAX_CUSTOM_SONGS - 1, MAX_CUSTOM_SONGS + 1}}

InitLibrary ==
  /\ mode = "library"
  /\ pc = "idle"
  /\ PackerIdle
  /\ LibraryIdle
  /\ HookIdle
  /\ AppIdle
  /\ ExportIdle
  /\ AelfIdle
  /\ DatabaseIdle

NextLibrary ==
  \/ \E song \in SongInputs : nextId <= MaxSaved /\ SaveToLibrary(song)
  \/ \E songId \in SongIds : RemoveFromLibrary(songId)
  \/ \E songId \in SongIds, updates \in UpdateInputs : UpdateInLibrary(songId, updates)
  \/ CleanupLibrary
  \/ ExportLibrary
  \/ \E jsonData \in ImportInputs : ImportLibrary(jsonData)
  \/ \E items \in RawLists : SetItem(items)
  \/ ClearStorage

SpecLibrary == InitLibrary /\ [][NextLibrary]_vars

\* C10: cleanupLibrary returns the number of damaged entries the storage held
\* and leaves exactly the valid ones in the storage.
CleanupRemovesCorrupted ==
  (mode = "library" /\ lastResult.op = "cleanup" /\ lastResult.before.present) =>
    LET before == lastResult.before.items
        valid == SelectSeq(before, isValidCustomSong)
    IN /\ lastResult.removedCount = Len(before) - Len(valid)
       /\ storage = Stored(valid)

\* C11, as stated: the library never holds more than MAX_CUSTOM_SONGS songs,
\* and every saveToLibrary issued while it holds MAX_CUSTOM_SONGS songs
\* fails with the limit error.
LibrarySizeLimit ==
  /\ [](Len(getCustomSongs(storage)) <= MAX_CUSTOM_SONGS)
  /\ [][(lastResult'.op = "save" /\ Len(getCustomSongs(storage)) >= MAX_CUSTOM_SONGS) =>
          (~lastResult'.success /\ lastResult'.error = LimitError)]_vars

\* C11, amended: the library never holds more than MAX_CUSTOM_SONGS songs,
\* and a saveToLibrary issued while it holds MAX_CUSTOM_SONGS songs fails:
\* with the limit error for a song that passes validateSongData, with the
\* validation error for any other song.
LibrarySizeLimitAfterValidation ==
  /\ [](Len(getCustomSongs(storage)) <= MAX_CUSTOM_SONGS)
  /\ [][(lastResult'.op = "save" /\ Len(getCustomSongs(storage)) >= MAX_CUSTOM_SONGS) =>
          /\ ~lastResult'.success
          /\ lastResult'.error = IF validateSongData(lastResult'.song) = "valid"
                                 THEN LimitError
                                 ELSE validateSongData(lastResult'.song)]_vars

\* A valid song was refused because the library holds MAX_CUSTOM_SONGS songs.
SaveRefusedAtLimit ==
  /\ mode = "library"
  /\ lastResult.op = "save"
  /\ ~lastResult.success
  /\ lastResult.error = LimitError
  /\ Len(getCustomSongs(storage)) = MAX_CUSTOM_SONGS

\* The songs of a list as the round trip compares them
Identity(songs) ==
  [k \in 1..Len(songs) |-> [id |-> songs[k].id, title |-> songs[k].title,
                            lyrics |-> songs[k].lyrics, category |-> songs[k].category]]

\* C12: importLibrary of what exportLibrary gave for a library of at most
\* MAX_CUSTOM_SONGS valid songs, on an emptied storage, succeeds, imports as
\* many songs as were exported and leaves getCustomSongs with the same songs
\* in the same order.
ExportImportRoundTrip ==
  [][(/\ lastResult'.op = "import"
      /\ storage = NoStorage
      /\ lastResult'.jsonData \in ExportedLibraries) =>
       (/\ lastResult'.success
        /\ lastResult'.imported = Len(lastResult'.jsonData.items)
        /\ Identity(getCustomSongs(storage')) = Identity(lastResult'.jsonData.items))]_vars

\* C13: a saveToLibrary, updateInLibrary, removeFromLibrary or importLibrary
\* that reports a failure leaves localStorage as it found it.
FailedCallsLeaveStorage ==
  [][(lastResult'.op \in {"save", "update", "remove", "import"} /\ ~lastResult'.success) =>
       storage' = storage]_vars

\* An update was refused for its merged data while the library holds songs.
UpdateRefusedOnStoredSong ==
  /\ mode = "library"
  /\ lastResult.op = "update"
  /\ ~lastResult.success
  /\ lastResult.error = "Le titre est requis"
  /\ getCustomSongs(storage) # <<>>

----------------------------------------------------------------------------
(* The hook useSongLibrary.  hook is the state of useState; its error is a  *)
(* message, or "null".  A call of the hook's saveToLibrary runs the service *)
(* and stops at its await; the calls stopped there resume in order.         *)

\* loadCustomSongs()
loadCustomSongs(h, store) ==
  [h EXCEPT !.customSongs = getCustomSongs(store), !.loading = FALSE, !.error = "null"]

\* A faulty variant of SaveSettled: the error of a failed save is not kept.
SaveSettledDropsError(h, store, result) ==
  LET set == [h EXCEPT !.lastSaveResult = result, !.error = "null"]
  IN IF result.success THEN loadCustomSongs(set, store) ELSE set

\* saveToLibrary of the hook after its await: the state it sets
SaveSettled(h, store, result) ==
  LET set == [h EXCEPT !.lastSaveResult = result,
                       !.error = IF result.success THEN "null"
                                 ELSE IF result.error # "" THEN result.error
                                 ELSE "Erreur de sauvegarde"]
  IN IF result.success THEN loadCustomSongs(set, store) ELSE set

\* useEffect(() => loadCustomSongs(), [])
HookMount ==
  /\ mode = "hook" /\ pc = "created"
  /\ hook' = loadCustomSongs(hook, storage)
  /\ pc' = "mounted"
  /\ lastResult' = [op |-> "mount"]
  /\ UNCHANGED <<mode, chunksIn, storage, nextId, pending, db>>
  /\ UNCHANGED packerVars
  /\ UNCHANGED frontVars

\* saveToLibrary(song) of the hook, up to its await
HookSaveToLibrary(song) ==
  /\ mode = "hook" /\ pc = "mounted"
  /\ LET call == saveToLibrary(storage, nextId, song)
     IN /\ storage' = call.storage
        /\ nextId' = IF call.result.success THEN nextId + 1 ELSE nextId
        /\ pending' = Append(pending, call.result)
  /\ hook' = [hook EXCEPT !.error = "null"]
  /\ lastResult' = [op |-> "saveCalled"]
  /\ UNCHANGED <<mode, pc, chunksIn, db>>
  /\ UNCHANGED packerVars
  /\ UNCHANGED frontVars

\* saveToLibrary(song) of the hook, from its await to its return; lastResult
\* is what the call returns.
HookSaveResolve ==
  /\ mode = "hook" /\ pc = "mounted"
  /\ pending # <<>>
  /\ hook' = SaveSettled(hook, storage, Head(pending))
  /\ pending' = Tail(pending)
  /\ lastResult' = [op |-> "saveResolved", result |-> Head(pending)]
  /\ UNCHANGED <<mode, pc, chunksIn, storage, nextId, db>>
  /\ UNCHANGED packerVars
  /\ UNCHANGED frontVars

\* removeFromLibrary(songId) of the hook
HookRemoveFromLibrary(songId) ==
  /\ mode = "hook" /\ pc = "mounted"
  /\ LET call == removeFromLibrary(storage, songId)
         cleared == [hook EXCEPT !.error = "null"]
     IN /\ storage' = call.storage
        /\ hook' = IF call.result.success THEN loadCustomSongs(cleared, call.storage)
                   ELSE [cleared EXCEPT !.error = "Chant non trouvé ou erreur de suppression"]
        /\ lastResult' = call.result
  /\ UNCHANGED <<mode, pc, chunksIn, nextId, pending, db>>
  /\ UNCHANGED packerVars
  /\ UNCHANGED frontVars

\* updateInLibrary(songId, updates) of the hook
HookUpdateInLibrary(songId, updates) ==
  /\ mode = "hook" /\ pc = "mounted"
  /\ LET call == updateInLibrary(storage, songId, updates)
         set == [hook EXCEPT !.lastSaveResult = call.result,
                             !.error = IF call.result.success THEN "null"
                                       ELSE IF call.result.error # "" THEN call.result.error
                                       ELSE "Erreur de mise à jour"]
     IN /\ storage' = call.storage
        /\ hook' = IF call.result.success THEN loadCustomSongs(set, call.storage) ELSE set
        /\ lastResult' = call.result
  /\ UNCHANGED <<mode, pc, chunksIn, nextId, pending, db>>
  /\ UNCHANGED packerVars
  /\ UNCHANGED frontVars

\* importLibrary(jsonData) of the hook
HookImportLibrary(jsonData) ==
  /\ mode = "hook" /\ pc = "mounted"
  /\ LET call == importLibrary(storage, jsonData)
         cleared == [hook EXCEPT !.error = "null"]
     IN /\ storage' = call.storage
        /\ hook' = IF call.result.success THEN loadCustomSongs(cleared, call.storage)
                   ELSE [cleared EXCEPT !.error = call.result.error]
        /\ lastResult' = call.result
  /\ UNCHANGED <<mode, pc, chunksIn, nextId, pending, db>>
  /\ UNCHANGED packerVars
  /\ UNCHANGED frontVars

\* refreshLibrary()
HookRefreshLibrary ==
  /\ mode = "hook" /\ pc = "mounted"
  /\ hook' = loadCustomSongs(hook, storage)
  /\ lastResult' = [op |-> "refresh"]
  /\ UNCHANGED <<mode, pc, chunksIn, storage, nextId, pending, db>>
  /\ UNCHANGED packerVars
  /\ UNCHANGED frontVars

\* clearError()
HookClearError ==
  /\ mode = "hook" /\ pc = "mounted"
  /\ hook' = [hook EXCEPT !.error = "null"]
  /\ lastResult' = [op |-> "clearError"]
  /\ UNCHANGED <<mode, pc, chunksIn, storage, nextId, pending, db>>
  /\ UNCHANGED packerVars
  /\ UNCHANGED frontVars

(* Inputs of the hook *)

MaxPending == 2

HookSongInputs ==
  {[title |-> title, lyrics |-> Str(<<"l">>), category |-> Str(<<"e">>)] :
     title \in {Str(<<"T">>), Str(<<>>)}}

HookSongIds == {Str(<<"v">>), generateUniqueId(1)}

HookUpdateInputs == {[title |-> Str(<<"U">>)], [title |-> Str(<<" ">>)]}

HookImportInputs == {NotJson, JsonArray(<<ValidSong(<<"v">>)>>)}

InitHook ==
  /\ mode = "hook"
  /\ pc = "created"
  /\ PackerIdle
  /\ LibraryIdle
  /\ HookIdle
  /\ AppIdle
  /\ ExportIdle
  /\ AelfIdle
  /\ DatabaseIdle

NextHook ==
  \/ HookMount
  \/ \E song \in HookSongInputs :
       nextId <= MaxSaved /\ Len(pending) < MaxPending /\ HookSaveToLibrary(song)
  \/ HookSaveResolve
  \/ \E songId \in HookSongIds : HookRemoveFromLibrary(songId)
  \/ \E songId \in HookSongIds, updates \in HookUpdateInputs :
       HookUpdateInLibrary(songId, updates)
  \/ \E jsonData \in HookImportInputs : HookImportLibrary(jsonData)
  \/ HookRefreshLibrary
  \/ HookClearError

SpecHook == InitHook /\ [][NextHook]_vars

\* C14: when a saveToLibrary of the hook returns, lastSaveResult is the
\* returned result and error is its error message, or null for a success; a
\* removeFromLibrary that returns false sets the error of the removal;
\* clearError sets error to null and changes nothing else.
HookErrorState ==
  [][/\ lastResult'.op = "saveResolved" =>
          /\ hook'.lastSaveResult = lastResult'.result
          /\ hook'.error = IF lastResult'.result.success THEN "null"
                           ELSE lastResult'.result.error
     /\ (lastResult'.op = "remove" /\ ~lastResult'.success) =>
          hook'.error = "Chant non trouvé ou erreur de suppression"
     /\ lastResult'.op = "clearError" =>
          /\ hook' = [hook EXCEPT !.error = "null"]
          /\ UNCHANGED <<storage, nextId, pending>>]_vars

\* A save was refused while songs are loaded, and its error is shown.
RefusedSaveShown ==
  /\ mode = "hook"
  /\ lastResult.op = "saveResolved"
  /\ ~lastResult.result.success
  /\ hook.error = lastResult.result.error
  /\ hook.lastSaveResult = lastResult.result
  /\ hook.customSongs # <<>>

----------------------------------------------------------------------------
(* The song database (DatabaseManager) on the table songs of the schema.   *)
(* db.songs holds the rows in the order of their ids, db.history the rows  *)
(* of song_history, db.session the status of the one row of               *)
(* import_sessions ("none" while it has no row), db.calls the number of    *)
(* calls made.  SHA-256 is taken as injective: the digest of a text is     *)
(* the text behind the mark "#".                                           *)

\* The characters \w matches, among the lower-case letters the inputs use
WordChar ==
  {"a", "b", "e", "g", "i", "k", "l", "o", "r", "y", "_"} \cup Digit

\* .normalize('NFD').replace(/[̀-ͯ]/g, ''), on the letters the inputs use
StripAccent(c) == IF c = "é" THEN "e" ELSE c

\* normalizeText(text)
normalizeText(chars) ==
  LET lower == ToLowerCase(chars)
      plain == [i \in 1..Len(lower) |-> StripAccent(lower[i])]
      Kept(c) == c \in WordChar \/ IsSpace(c)
  IN Collapse(SelectSeq(plain, Kept))

\* generateLyricsHash(lyrics)
generateLyricsHash(lyrics) == <<"#">> \o normalizeText(lyrics)

Active(rows) == {k \in 1..Len(rows) : rows[k].isActive}

\* isDuplicate(lyricsHash)
isDuplicate(rows, lyricsHash) ==
  Cardinality({k \in Active(rows) : rows[k].lyricsHash = lyricsHash}) > 0

\* CREATE UNIQUE INDEX idx_songs_lyrics_hash ON songs(lyrics_hash): whether a
\* row other than row id holds the hash
HashTaken(rows, lyricsHash, id) ==
  \E k \in 1..Len(rows) : k # id /\ rows[k].lyricsHash = lyricsHash

\* getSongById(id): the index of the active row, or 0
getSongById(rows, id) == IF id \in Active(rows) THEN id ELSE 0

\* createSong(songData) on the table d: the table it leaves, and whether it threw
createSong(d, songData) ==
  LET lyricsHash == generateLyricsHash(songData.lyrics)
      id == Len(d.songs) + 1
      row == [id |-> id, lyrics |-> songData.lyrics, lyricsHash |-> lyricsHash,
              category |-> songData.category, isActive |-> TRUE]
  IN IF isDuplicate(d.songs, lyricsHash)
     THEN [db |-> d, threw |-> TRUE,
           error |-> "Un chant avec des paroles similaires existe déjà"]
     ELSE IF HashTaken(d.songs, lyricsHash, 0)
     THEN [db |-> d, threw |-> TRUE,
           error |-> "UNIQUE constraint failed: songs.lyrics_hash"]
     ELSE [db |-> [d EXCEPT !.songs = Append(@, row),
                            !.history = Append(@, <<id, "created">>)],
           threw |-> FALSE, error |-> ""]

\* updateSong(id, updates); an absent or empty updates.lyrics is <<>>, an
\* absent updates.category is "".
updateSong(d, id, updates) ==
  LET newHash == generateLyricsHash(updates.lyrics)
  IN IF getSongById(d.songs, id) = 0
     THEN [db |-> d, threw |-> TRUE, error |-> "Chant avec l'ID non trouvé"]
     ELSE IF /\ updates.lyrics # <<>>
             /\ newHash # d.songs[id].lyricsHash
             /\ isDuplicate(d.songs, newHash)
     THEN [db |-> d, threw |-> TRUE, error |-> "Un chant avec ces paroles existe déjà"]
     ELSE IF updates.lyrics = <<>> /\ updates.category = ""
     THEN [db |-> d, threw |-> FALSE, error |-> ""]
     ELSE IF updates.lyrics # <<>> /\ HashTaken(d.songs, newHash, id)
     THEN [db |-> d, threw |-> TRUE,
           error |-> "UNIQUE constraint failed: songs.lyrics_hash"]
     ELSE LET row == d.songs[id]
              updated ==
                [row EXCEPT
                   !.lyrics = IF updates.lyrics # <<>> THEN updates.lyrics ELSE @,
                   !.lyricsHash = IF updates.lyrics # <<>> THEN newHash ELSE @,
                   !.category = IF updates.category # "" THEN updates.category ELSE @]
          IN [db |-> [d EXCEPT !.songs[id] = updated,
                               !.history = Append(@, <<id, "updated">>)],
              threw |-> FALSE, error |-> ""]

\* deleteSong(id)
deleteSong(d, id) ==
  IF getSongById(d.songs, id) = 0
  THEN [db |-> d, deleted |-> FALSE]
  ELSE [db |-> [d EXCEPT !.songs[id].isActive = FALSE,
                         !.history = Append(@, <<id, "deleted">>)],
        deleted |-> TRUE]

\* The loop of the transaction of importSongs over songs[k..]: the table it
\* leaves and the numbers of songs imported and failed
RECURSIVE ImportLoop(_, _, _, _, _)
ImportLoop(d, songs, k, successfulImports, failedImports) ==
  IF k > Len(songs)
  THEN [db |-> d, successfulImports |-> successfulImports, failedImports |-> failedImports]
  ELSE LET call == createSong(d, songs[k])
       IN IF call.threw
          THEN ImportLoop(d, songs, k + 1, successfulImports, failedImports + 1)
          ELSE ImportLoop(call.db, songs, k + 1, successfulImports + 1, failedImports)

\* updateImportSession(sessionId, { status }): no row, no change
SessionStatus(d, status) == IF d.session = "none" THEN d ELSE [d EXCEPT !.session = status]

\* importSongs(songs, sessionId)
importSongs(d, songs) ==
  LET done == ImportLoop(SessionStatus(d, "processing"), songs, 1, 0, 0)
      success == done.successfulImports > 0
  IN [db |-> SessionStatus(done.db, IF success THEN "completed" ELSE "failed"),
      success |-> success,
      successfulImports |-> done.successfulImports,
      failedImports |-> done.failedImports]

\* The rows the schema inserts: their lyrics_hash is the text the schema
\* gives, no digest of their lyrics.  Lyrics are written with a few letters.
DefaultSongs ==
  <<[id |-> 1, lyrics |-> <<"K", "y", "r", "i", "e", ".">>,
     lyricsHash |-> <<"a", "1", "b", "2">>, category |-> "kyrie", isActive |-> TRUE],
    [id |-> 2, lyrics |-> <<"G", "l", "o", "r", "i", "a">>,
     lyricsHash |-> <<"b", "2", "c", "3">>, category |-> "gloria", isActive |-> TRUE]>>

\* One call of createSong; lastResult keeps the argument.
CreateSong(songData) ==
  /\ mode = "database"
  /\ LET call == createSong(db, songData)
     IN /\ db' = [call.db EXCEPT !.calls = @ + 1]
        /\ lastResult' = [op |-> "createSong", threw |-> call.threw, error |-> call.error,
                          songData |-> songData]
  /\ UNCHANGED <<mode, pc, chunksIn, storage, nextId, hookVars>>
  /\ UNCHANGED packerVars
  /\ UNCHANGED frontVars

\* One call of updateSong; lastResult keeps the arguments.
UpdateSong(id, updates) ==
  /\ mode = "database"
  /\ LET call == updateSong(db, id, updates)
     IN /\ db' = [call.db EXCEPT !.calls = @ + 1]
        /\ lastResult' = [op |-> "updateSong", threw |-> call.threw, error |-> call.error,
                          id |-> id, updates |-> updates]
  /\ UNCHANGED <<mode, pc, chunksIn, storage, nextId, hookVars>>
  /\ UNCHANGED packerVars
  /\ UNCHANGED frontVars

\* One call of deleteSong
DeleteSong(id) ==
  /\ mode = "database"
  /\ LET call == deleteSong(db, id)
     IN /\ db' = [call.db EXCEPT !.calls = @ + 1]
        /\ lastResult' = [op |-> "deleteSong", deleted |-> call.deleted]
  /\ UNCHANGED <<mode, pc, chunksIn, storage, nextId, hookVars>>
  /\ UNCHANGED packerVars
  /\ UNCHANGED frontVars

\* One call of startImportSession
StartImportSession ==
  /\ mode = "database"
  /\ db.session = "none"
  /\ db' = [db EXCEPT !.session = "pending", !.calls = @ + 1]
  /\ lastResult' = [op |-> "startImportSession"]
  /\ UNCHANGED <<mode, pc, chunksIn, storage, nextId, hookVars>>
  /\ UNCHANGED packerVars
  /\ UNCHANGED frontVars

\* One call of importSongs; lastResult keeps the batch.
ImportSongs(songs) ==
  /\ mode = "database"
  /\ LET call == importSongs(db, songs)
     IN /\ db' = [call.db EXCEPT !.calls = @ + 1]
        /\ lastResult' = [op |-> "importSongs", success |-> call.success,
                          successfulImports |-> call.successfulImports,
                          failedImports |-> call.failedImports, songs |-> songs]
  /\ UNCHANGED <<mode, pc, chunksIn, storage, nextId, hookVars>>
  /\ UNCHANGED packerVars
  /\ UNCHANGED frontVars

(* Inputs of the database *)

MaxCalls == 3
MaxBatch == 2

LyricsInputs ==
  {<<"K", "y", "r", "i", "e", ".">>, <<"a", " ", "b">>, <<"A", ",", " ", " ", "b", "!">>,
   <<"é">>}

SongData == {[lyrics |-> lyrics, category |-> "other"] : lyrics \in LyricsInputs}

SongUpdates ==
  {[lyrics |-> lyrics, category |-> category] :
     lyrics \in {<<>>, <<"a", " ", "b">>, <<"e">>}, category \in {"", "final"}}

RowIds == 1..(Len(DefaultSongs) + 1)

InitDatabase ==
  /\ mode = "database"
  /\ pc = "idle"
  /\ PackerIdle
  /\ LibraryIdle
  /\ HookIdle
  /\ AppIdle
  /\ ExportIdle
  /\ AelfIdle
  /\ db = [songs |-> DefaultSongs, history |-> <<>>, session |-> "none", calls |-> 0]

NextDatabase ==
  \/ \E songData \in SongData : db.calls < MaxCalls /\ CreateSong(songData)
  \/ \E id \in RowIds, updates \in SongUpdates : db.calls < MaxCalls /\ UpdateSong(id, updates)
  \/ \E id \in RowIds : db.calls < MaxCalls /\ DeleteSong(id)
  \/ db.calls < MaxCalls /\ StartImportSession
  \/ \E songs \in SeqsUpTo(SongData, MaxBatch) : db.calls < MaxCalls /\ ImportSongs(songs)

SpecDatabase == InitDatabase /\ [][NextDatabase]_vars

\* C15: importSongs stores every song of its batch or none of them.
ImportAllOrNothing ==
  [][lastResult'.op = "importSongs" =>
       \/ Len(db'.songs) = Len(db.songs) + Len(lastResult'.songs)
       \/ db'.songs = db.songs]_vars

SameLyrics(a, b) == normalizeText(a) = normalizeText(b)

\* C16: no two active songs have lyrics of the same hash; createSong throws
\* for lyrics whose normal form is that of an active song, and updateSong
\* throws for new lyrics whose normal form is that of another active song.
NoDuplicateLyrics ==
  /\ [](mode = "database" =>
          \A i, j \in Active(db.songs) :
            generateLyricsHash(db.songs[i].lyrics) = generateLyricsHash(db.songs[j].lyrics)
              => i = j)
  /\ [][/\ (/\ lastResult'.op = "createSong"
            /\ \E k \in Active(db.songs) :
                 SameLyrics(db.songs[k].lyrics, lastResult'.songData.lyrics))
              => lastResult'.threw
        /\ (/\ lastResult'.op = "updateSong"
            /\ lastResult'.updates.lyrics # <<>>
            /\ lastResult'.id \in Active(db.songs)
            /\ \E k \in Active(db.songs) \ {lastResult'.id} :
                 SameLyrics(db.songs[k].lyrics, lastResult'.updates.lyrics))
              => lastResult'.threw]_vars

----------------------------------------------------------------------------
(* The slide order of App (src/src/App.tsx).                               *)
(*                                                                         *)
(* A reading is a record with its id, a song a record with its id and its  *)
(* order, an item of slideOrder a record with id, type and order.  The     *)
(* effect that follows setReadings or setSongs is part of the handler that *)
(* called it.                                                              *)

Front(q) == SubSeq(q, 1, Len(q) - 1)

\* The positions of items in the order [...items].sort((a, b) => a.order - b.order)
\* gives them: ascending order, equal orders in the order of the array.
RECURSIVE SortedPositions(_)
SortedPositions(items) ==
  IF items = <<>> THEN <<>>
  ELSE LET n == Len(items)
           before == SortedPositions(Front(items))
           keep == Cardinality({k \in 1..Len(before) : items[before[k]].order <= items[n].order})
       IN SubSeq(before, 1, keep) \o <<n>> \o SubSeq(before, keep + 1, Len(before))

SortByOrder(items) == [k \in 1..Len(items) |-> items[SortedPositions(items)[k]]]

HasId(items, id) == \E k \in 1..Len(items) : items[k].id = id

\* items.findIndex(item => item.id === id), counted from 1; 0 when there is none
FindIndex(items, id) ==
  IF HasId(items, id) THEN CHOOSE k \in 1..Len(items) :
                             items[k].id = id /\ \A j \in 1..(k - 1) : items[j].id # id
  ELSE 0

SlideItem(id, type, order) == [id |-> id, type |-> type, order |-> order]

\* A faulty variant of SyncSlideOrder: the items that stay keep the order
\* number they had.
SyncSlideOrderKeepsNumbers(rs, ss, order) ==
  LET New(items) == LET Missing(x) == ~HasId(order, x.id) IN SelectSeq(items, Missing)
      newReadings == New(rs)
      newSongs == New(ss)
      newSlideOrder ==
        [k \in 1..Len(newReadings) |-> SlideItem(newReadings[k].id, "reading", k - 1)]
        \o [k \in 1..Len(newSongs) |-> SlideItem(newSongs[k].id, "song", Len(newReadings) + k - 1)]
      Valid(item) == IF item.type = "reading" THEN HasId(rs, item.id) ELSE HasId(ss, item.id)
      existingValidItems == SelectSeq(order, Valid)
  IN existingValidItems \o newSlideOrder

\* useEffect(..., [readings, songs]): the slide order after the readings or
\* the songs have changed to rs and ss.
SyncSlideOrder(rs, ss, order) ==
  LET New(items) == LET Missing(x) == ~HasId(order, x.id) IN SelectSeq(items, Missing)
      newReadings == New(rs)
      newSongs == New(ss)
      newSlideOrder ==
        [k \in 1..Len(newReadings) |-> SlideItem(newReadings[k].id, "reading", k - 1)]
        \o [k \in 1..Len(newSongs) |-> SlideItem(newSongs[k].id, "song", Len(newReadings) + k - 1)]
      Valid(item) == IF item.type = "reading" THEN HasId(rs, item.id) ELSE HasId(ss, item.id)
      existingValidItems == SelectSeq(order, Valid)
      finalOrder == existingValidItems \o newSlideOrder
  IN [index \in 1..Len(finalOrder) |-> [finalOrder[index] EXCEPT !.order = index - 1]]

\* The two positions of items whose orders handleReorderSong and
\* handleReorderSlide exchange, or <<>> when they return without a change.
SwapPositions(items, id, direction) ==
  IF FindIndex(items, id) = 0 THEN <<>>
  ELSE LET sorted == SortedPositions(items)
           sortedIndex == CHOOSE k \in 1..Len(sorted) :
                            items[sorted[k]].id = id
                            /\ \A j \in 1..(k - 1) : items[sorted[j]].id # id
       IN IF direction = "up" /\ sortedIndex > 1
          THEN <<sorted[sortedIndex], sorted[sortedIndex - 1]>>
          ELSE IF direction = "down" /\ sortedIndex < Len(sorted)
          THEN <<sorted[sortedIndex], sorted[sortedIndex + 1]>>
          ELSE <<>>

\* const tempOrder = current.order; current.order = other.order; other.order = tempOrder
SwapOrders(items, pair) ==
  [k \in 1..Len(items) |->
     IF k = pair[1] THEN [items[k] EXCEPT !.order = items[pair[2]].order]
     ELSE IF k = pair[2] THEN [items[k] EXCEPT !.order = items[pair[1]].order]
     ELSE items[k]]

MaxOf(S) == CHOOSE x \in S : \A y \in S : y <= x

\* loadReadings: setReadings(readingsArray), then the effect.
LoadReadings(readingsArray) ==
  /\ mode = "app"
  /\ readings' = readingsArray
  /\ slideOrder' = SyncSlideOrder(readingsArray, appSongs, slideOrder)
  /\ UNCHANGED <<mode, pc, chunksIn, appSongs>>
  /\ UNCHANGED <<packerVars, libraryVars, hookVars, db, exportVars, aelfVars>>

\* handleAddSong(songData): the song gets the id id and the order after the
\* greatest one; then the effect.
handleAddSong(id) ==
  /\ mode = "app"
  /\ LET maxOrder == IF Len(appSongs) > 0
                     THEN MaxOf({appSongs[k].order : k \in 1..Len(appSongs)}) ELSE -1
         newSong == [id |-> id, order |-> maxOrder + 1]
     IN /\ appSongs' = Append(appSongs, newSong)
        /\ slideOrder' = SyncSlideOrder(readings, appSongs', slideOrder)
  /\ UNCHANGED <<mode, pc, chunksIn, readings>>
  /\ UNCHANGED <<packerVars, libraryVars, hookVars, db, exportVars, aelfVars>>

\* handleUpdateSong(id, songData): a new array of songs, each with the id and
\* the order it had; then the effect.
handleUpdateSong(id) ==
  /\ mode = "app"
  /\ appSongs' = [k \in 1..Len(appSongs) |-> [id |-> appSongs[k].id, order |-> appSongs[k].order]]
  /\ slideOrder' = SyncSlideOrder(readings, appSongs', slideOrder)
  /\ UNCHANGED <<mode, pc, chunksIn, readings>>
  /\ UNCHANGED <<packerVars, libraryVars, hookVars, db, exportVars, aelfVars>>

\* handleDeleteSong(id); then the effect.
handleDeleteSong(id) ==
  /\ mode = "app"
  /\ LET Other(song) == song.id # id IN appSongs' = SelectSeq(appSongs, Other)
  /\ slideOrder' = SyncSlideOrder(readings, appSongs', slideOrder)
  /\ UNCHANGED <<mode, pc, chunksIn, readings>>
  /\ UNCHANGED <<packerVars, libraryVars, hookVars, db, exportVars, aelfVars>>

\* handleReorderSong(id, direction): setSongs and the effect only when two
\* orders were exchanged.
handleReorderSong(id, direction) ==
  /\ mode = "app"
  /\ LET pair == SwapPositions(appSongs, id, direction)
     IN IF pair = <<>>
        THEN UNCHANGED <<appSongs, slideOrder>>
        ELSE /\ appSongs' = SwapOrders(appSongs, pair)
             /\ slideOrder' = SyncSlideOrder(readings, appSongs', slideOrder)
  /\ UNCHANGED <<mode, pc, chunksIn, readings>>
  /\ UNCHANGED <<packerVars, libraryVars, hookVars, db, exportVars, aelfVars>>

\* The slide order handleReorderSlide(slideId, direction) leaves.
ReorderedSlides(order, slideId, direction) ==
  LET pair == SwapPositions(order, slideId, direction)
  IN IF pair = <<>> THEN order ELSE SwapOrders(order, pair)

\* handleReorderSlide(slideId, direction): no effect follows setSlideOrder.
handleReorderSlide(slideId, direction) ==
  /\ mode = "app"
  /\ slideOrder' = ReorderedSlides(slideOrder, slideId, direction)
  /\ UNCHANGED <<mode, pc, chunksIn, readings, appSongs>>
  /\ UNCHANGED <<packerVars, libraryVars, hookVars, db, exportVars, aelfVars>>

----------------------------------------------------------------------------
(* Inputs of App *)

MaxSongs == 2
MaxSongOrder == 2

\* The readings getReadingsForDate gives for two dates: two recognised
\* lectures of the first date, the gospel of the second.
ReadingsOfDate ==
  {<<[id |-> "premiere_lecture-A-0"], [id |-> "evangile-A-1"]>>,
   <<[id |-> "evangile-B-0"]>>}

\* setReadings(readingsArray) and, in the catch branch, setReadings([])
ReadingArrays == ReadingsOfDate \cup {<<>>}

SongIdOf(n) == <<"song-1", "song-2", "song-3", "song-4">>[n]

\* The id of a new song: one no song has.
FreshSongIds == {SongIdOf(CHOOSE n \in 1..(MaxSongs + 1) : ~HasId(appSongs, SongIdOf(n)))}

AppSongIds == {SongIdOf(n) : n \in 1..MaxSongs}

AppSlideIds == AppSongIds \cup {"premiere_lecture-A-0", "evangile-A-1", "evangile-B-0"}

Directions == {"up", "down"}

InitApp ==
  /\ mode = "app"
  /\ pc = "mounted"
  /\ PackerIdle
  /\ LibraryIdle
  /\ HookIdle
  /\ DatabaseIdle
  /\ AppIdle
  /\ ExportIdle
  /\ AelfIdle

NextApp ==
  \/ \E readingsArray \in ReadingArrays : LoadReadings(readingsArray)
  \/ \E id \in FreshSongIds :
       /\ Len(appSongs) < MaxSongs
       /\ \A k \in 1..Len(appSongs) : appSongs[k].order < MaxSongOrder
       /\ handleAddSong(id)
  \/ \E id \in AppSongIds : handleUpdateSong(id)
  \/ \E id \in AppSongIds : handleDeleteSong(id)
  \/ \E id \in AppSongIds, direction \in Directions : handleReorderSong(id, direction)
  \/ \E slideId \in AppSlideIds, direction \in Directions : handleReorderSlide(slideId, direction)

SpecApp == InitApp /\ [][NextApp]_vars

----------------------------------------------------------------------------
(* Properties of the slide order *)

OrderOf(items, id) == items[FindIndex(items, id)].order

\* C23: when a reading or a song is added or removed, the slides that remain
\* keep the relative order their order fields gave them, and the new slides
\* come after all of them.
SlideOrderKeptAcrossChanges ==
  [][LET Ids(items) == {items[k].id : k \in 1..Len(items)}
         remaining == Ids(slideOrder) \cap Ids(slideOrder')
         new == Ids(slideOrder') \ Ids(slideOrder)
     IN Ids(readings') \cup Ids(appSongs') # Ids(readings) \cup Ids(appSongs) =>
          /\ \A a, b \in remaining :
               OrderOf(slideOrder, a) < OrderOf(slideOrder, b) <=>
                 OrderOf(slideOrder', a) < OrderOf(slideOrder', b)
          /\ \A a \in remaining, b \in new :
               OrderOf(slideOrder', a) < OrderOf(slideOrder', b)]_vars

\* C27: slideOrder holds one item, of the right type, for each reading and
\* each song and no other item, and the orders of its items are 0..n-1;
\* handleReorderSlide exchanges the orders of the item and of its neighbour in
\* the order, and changes nothing for "up" on the first item, "down" on the
\* last one and an id that slideOrder does not hold.
SlideOrderWellFormed ==
  mode = "app" =>
    /\ Len(slideOrder) = Len(readings) + Len(appSongs)
    /\ \A r \in 1..Len(readings) :
         Cardinality({k \in 1..Len(slideOrder) :
                        slideOrder[k].id = readings[r].id /\ slideOrder[k].type = "reading"}) = 1
    /\ \A s \in 1..Len(appSongs) :
         Cardinality({k \in 1..Len(slideOrder) :
                        slideOrder[k].id = appSongs[s].id /\ slideOrder[k].type = "song"}) = 1
    /\ {slideOrder[k].order : k \in 1..Len(slideOrder)} = 0..(Len(slideOrder) - 1)
    /\ \A id \in AppSlideIds, direction \in Directions :
         LET n == Len(slideOrder)
             after == ReorderedSlides(slideOrder, id, direction)
             step == IF direction = "up" THEN -1 ELSE 1
             there == {k \in 1..n : slideOrder[k].id = id}
         IN IF there = {} \/ \A k \in there : slideOrder[k].order + step \notin 0..(n - 1)
            THEN after = slideOrder
            ELSE /\ Len(after) = n
                 /\ \A k \in 1..n :
                      /\ after[k].id = slideOrder[k].id
                      /\ after[k].type = slideOrder[k].type
                      /\ after[k].order =
                           IF slideOrder[k].id = id THEN slideOrder[k].order + step
                           ELSE IF slideOrder[k].order = OrderOf(slideOrder, id) + step
                                THEN OrderOf(slideOrder, id)
                           ELSE slideOrder[k].order

\* A slide order of readings and songs in which slides have been moved: the
\* order fields no longer follow the array.
SlideMovedAmongReadingsAndSongs ==
  /\ mode = "app"
  /\ readings # <<>>
  /\ appSongs # <<>>
  /\ Len(slideOrder) >= 3
  /\ \E k \in 1..Len(slideOrder) : slideOrder[k].order # k - 1

----------------------------------------------------------------------------
(* The reading service (AELFService, src/unnamed/part_003).                *)
(*                                                                         *)
(* What a fetch call gives is chosen by the network: it throws an error,   *)
(* or it gives a response with a status, a content type and a body; the    *)
(* body can be read or not, be JSON or not, and its JSON is any value of   *)
(* the shape below.  A message is a string value whose v lists its pieces. *)
(* The text of a reading plays no part in what the service resolves to and *)
(* is left out of the readings.                                            *)

Message(pieces) == [t |-> "string", v |-> pieces]

IndexString(index) == <<"0", "1", "2", "3">>[index + 1]

\* getMockReadings(date, error)
getMockReadings(date, error) ==
  [readings |-> <<[key |-> "first_reading", id |-> <<"first", date, "">>, type |-> "first_reading"],
                  [key |-> "psalm", id |-> <<"psalm", date, "">>, type |-> "psalm"],
                  [key |-> "gospel", id |-> <<"gospel", date, "">>, type |-> "gospel"]>>,
   error |-> error]

\* lecture.type.toLowerCase(), on the types the inputs use
LowerCaseType(type) ==
  CASE type = "Evangile" -> "evangile"
    [] type = "PSAUME" -> "psaume"
    [] OTHER -> type

\* The property of readings the switch of parseAELFResponse assigns for a
\* lower-cased lecture type, "none" for the default branch.
ReadingKey(lowerType) ==
  CASE lowerType \in {"premiere_lecture", "première_lecture", "lecture_1"} -> "first_reading"
    [] lowerType \in {"psaume", "psaume_responsorial"} -> "psalm"
    [] lowerType \in {"deuxieme_lecture", "deuxième_lecture", "lecture_2"} -> "second_reading"
    [] lowerType \in {"evangile", "évangile"} -> "gospel"
    [] OTHER -> "none"

\* cleanText(lecture.contenu) or lecture.type.toLowerCase() throws a TypeError
LectureThrows(lecture) ==
  \/ lecture.contenu \notin {"string", "undefined"}
  \/ lecture.type.t # "string"

\* readings[key] = reading: an object keeps a property where it first got it
AssignReading(found, reading) ==
  IF \E k \in 1..Len(found) : found[k].key = reading.key
  THEN [k \in 1..Len(found) |-> IF found[k].key = reading.key THEN reading ELSE found[k]]
  ELSE Append(found, reading)

\* messe.lectures.forEach((lecture, index) => ...) from the lecture at
\* position index + 1 on; threw tells that a callback threw.
RECURSIVE ParseLectures(_, _, _, _)
ParseLectures(lectures, index, date, found) ==
  IF index >= Len(lectures) THEN [threw |-> FALSE, readings |-> found]
  ELSE LET lecture == lectures[index + 1]
           readingId == <<lecture.type.v, date, IndexString(index)>>
       IN IF LectureThrows(lecture) THEN [threw |-> TRUE, readings |-> found]
          ELSE LET key == ReadingKey(LowerCaseType(lecture.type.v))
               IN ParseLectures(lectures, index + 1, date,
                    IF key = "none" THEN found
                    ELSE AssignReading(found, [key |-> key, id |-> readingId, type |-> key]))

\* A faulty variant of parseAELFResponse: it returns the readings it has, even
\* when it has none.
parseAELFResponseWithoutFallback(data, date) ==
  IF data.t # "object"
  THEN getMockReadings(date, Message(<<"Erreur lors du traitement de la réponse API">>))
  ELSE IF data.messes.t # "array" \/ Len(data.messes.v) = 0
  THEN getMockReadings(date, Message(<<"Aucune messe trouvée pour cette date">>))
  ELSE LET messe == data.messes.v[1] IN
       IF messe.t # "object"
       THEN getMockReadings(date, Message(<<"Erreur lors du traitement de la réponse API">>))
       ELSE IF messe.lectures.t # "array" \/ Len(messe.lectures.v) = 0
       THEN getMockReadings(date, Message(<<"Aucune lecture trouvée pour cette messe">>))
       ELSE LET parsed == ParseLectures(messe.lectures.v, 0, date, <<>>) IN
            IF parsed.threw
            THEN getMockReadings(date, Message(<<"Erreur lors du traitement de la réponse API">>))
            ELSE [readings |-> parsed.readings, error |-> Undefined]

\* parseAELFResponse(data, date): reading a property of null throws, and what
\* is thrown inside the try is caught.
parseAELFResponse(data, date) ==
  IF data.t # "object"
  THEN getMockReadings(date, Message(<<"Erreur lors du traitement de la réponse API">>))
  ELSE IF data.messes.t # "array" \/ Len(data.messes.v) = 0
  THEN getMockReadings(date, Message(<<"Aucune messe trouvée pour cette date">>))
  ELSE LET messe == data.messes.v[1] IN
       IF messe.t # "object"
       THEN getMockReadings(date, Message(<<"Erreur lors du traitement de la réponse API">>))
       ELSE IF messe.lectures.t # "array" \/ Len(messe.lectures.v) = 0
       THEN getMockReadings(date, Message(<<"Aucune lecture trouvée pour cette messe">>))
       ELSE LET parsed == ParseLectures(messe.lectures.v, 0, date, <<>>) IN
            IF parsed.threw
            THEN getMockReadings(date, Message(<<"Erreur lors du traitement de la réponse API">>))
            ELSE IF Len(parsed.readings) = 0
            THEN getMockReadings(date,
                   Message(<<"Types de lectures non reconnus dans la réponse API">>))
            ELSE [readings |-> parsed.readings, error |-> Undefined]

\* response.ok
IsOk(status) == status >= 200 /\ status <= 299

\* contentType && contentType.includes('application/json'); "null" is the
\* header that is not there
IsJsonContentType(contentType) ==
  contentType \in {"application/json", "application/json; charset=utf-8"}

\* error instanceof Error && (error.name === 'AbortError' || error.message.includes('fetch'))
IsNetworkError(error) ==
  error.isError /\ (error.name = "AbortError" \/ error.mentionsFetch)

\* What a call resolves to, or the call of tryAlternativeApproach it returns
Resolved(response) == [kind |-> "resolved", response |-> response]
Alternative == [kind |-> "alternative", response |-> getMockReadings("", Undefined)]

\* The catch block of getReadingsForDate
CatchOfGetReadings(date, error) ==
  IF IsNetworkError(error) THEN Alternative
  ELSE Resolved(getMockReadings(date,
         IF error.isError THEN error.message
         ELSE Message(<<"Erreur inconnue lors du chargement des textes liturgiques">>)))

\* getReadingsForDate(date) when its fetch call gives outcome
getReadingsForDate(date, outcome) ==
  IF outcome.kind = "throws" THEN CatchOfGetReadings(date, outcome.error)
  ELSE IF ~IsOk(outcome.status)
  THEN IF outcome.status = 502 \/ outcome.status = 503 THEN Alternative
       ELSE Resolved(getMockReadings(date,
              Message(<<"Erreur API AELF (", outcome.statusName, "): ", outcome.statusText>>)))
  ELSE IF ~IsJsonContentType(outcome.contentType)
  THEN IF ~outcome.body.reads THEN CatchOfGetReadings(date, outcome.body.readError)
       ELSE IF StartsWith(Trim(outcome.body.text), <<"<", "!">>)
       THEN Resolved(getMockReadings(date,
              Message(<<"L'API AELF a retourné une page d'erreur au lieu des données JSON">>)))
       ELSE Resolved(getMockReadings(date, Message(<<"Format de réponse invalide de l'API AELF">>)))
  ELSE IF ~outcome.body.reads \/ ~outcome.body.parses
  THEN Resolved(getMockReadings(date,
         Message(<<"Erreur de format dans la réponse de l'API AELF">>)))
  ELSE Resolved(parseAELFResponse(outcome.body.data, date))

\* tryAlternativeApproach(date) when its fetch call gives outcome
tryAlternativeApproach(date, outcome) ==
  IF /\ outcome.kind = "response"
     /\ IsOk(outcome.status)
     /\ IsJsonContentType(outcome.contentType)
     /\ outcome.body.reads
     /\ outcome.body.parses
  THEN Resolved(parseAELFResponse(outcome.body.data, date))
  ELSE Resolved(getMockReadings(date,
         Message(<<"Impossible de contacter l'API AELF. Utilisation des données d'exemple.">>)))

\* getReadingsForDate(date) up to the end of its own fetch call.
GetReadingsForDate(date, outcome) ==
  /\ mode = "aelf" /\ pc = "call"
  /\ requests' = <<[url |-> "proxy", date |-> date, outcome |-> outcome]>>
  /\ LET result == getReadingsForDate(date, outcome)
     IN IF result.kind = "alternative"
        THEN /\ pc' = "alternative"
             /\ UNCHANGED serviceResponse
        ELSE /\ pc' = "done"
             /\ serviceResponse' = result
  /\ UNCHANGED <<mode, chunksIn>>
  /\ UNCHANGED <<packerVars, libraryVars, hookVars, db, appVars, exportVars>>

\* return this.tryAlternativeApproach(date)
TryAlternativeApproach(outcome) ==
  /\ mode = "aelf" /\ pc = "alternative"
  /\ requests' = Append(requests, [url |-> "direct", date |-> requests[1].date, outcome |-> outcome])
  /\ serviceResponse' = tryAlternativeApproach(requests[1].date, outcome)
  /\ pc' = "done"
  /\ UNCHANGED <<mode, chunksIn>>
  /\ UNCHANGED <<packerVars, libraryVars, hookVars, db, appVars, exportVars>>

----------------------------------------------------------------------------
(* Inputs of the reading service *)

MaxLectures == 2

Dates == {"2025-03-09"}

NoErrorThrown == [isError |-> FALSE, name |-> "", mentionsFetch |-> FALSE, message |-> Message(<<>>)]

\* What fetch and response.text() throw: the rejection of an aborted or timed
\* out request, the TypeError of a failed request as the browsers word it, and
\* a value that is no Error.
ThrownErrors ==
  {[isError |-> TRUE, name |-> "AbortError", mentionsFetch |-> FALSE,
    message |-> Message(<<"The operation was aborted.">>)],
   [isError |-> TRUE, name |-> "TimeoutError", mentionsFetch |-> FALSE,
    message |-> Message(<<"signal timed out">>)],
   [isError |-> TRUE, name |-> "TypeError", mentionsFetch |-> TRUE,
    message |-> Message(<<"Failed to fetch">>)],
   [isError |-> TRUE, name |-> "TypeError", mentionsFetch |-> FALSE,
    message |-> Message(<<"Load failed">>)],
   [isError |-> FALSE, name |-> "", mentionsFetch |-> FALSE,
    message |-> Message(<<"offline">>)]}

NoData == [t |-> "null", messes |-> [t |-> "undefined", v |-> <<>>]]

LectureInputs ==
  {[type |-> Str("premiere_lecture"), contenu |-> "string"],
   [type |-> Str("Evangile"), contenu |-> "string"],
   [type |-> Str("PSAUME"), contenu |-> "undefined"],
   [type |-> Str("antienne"), contenu |-> "string"],
   [type |-> Str("evangile"), contenu |-> "number"],
   [type |-> [t |-> "undefined", v |-> "undefined"], contenu |-> "string"]}

Messe(lectures) == [t |-> "object", lectures |-> lectures]

\* The values JSON.parse gives
DataInputs ==
  {NoData,
   [t |-> "object", messes |-> [t |-> "undefined", v |-> <<>>]],
   [t |-> "object", messes |-> [t |-> "array", v |-> <<>>]],
   [t |-> "object", messes |-> [t |-> "array",
      v |-> <<[t |-> "null", lectures |-> [t |-> "undefined", v |-> <<>>]]>>]],
   [t |-> "object", messes |-> [t |-> "array", v |-> <<Messe([t |-> "undefined", v |-> <<>>])>>]]}
  \cup {[t |-> "object", messes |-> [t |-> "array", v |-> <<Messe([t |-> "array", v |-> lectures])>>]] :
          lectures \in SeqsUpTo(LectureInputs, MaxLectures)}

Body(reads, readError, bodyText, parses, data) ==
  [reads |-> reads, readError |-> readError, text |-> bodyText, parses |-> parses, data |-> data]

BodyInputs ==
  {Body(TRUE, NoErrorThrown, bodyText, FALSE, NoData) :
     bodyText \in {<<"<", "!", "D">>, <<" ", "<", "!">>, <<"o", "k">>, <<>>}}
  \cup {Body(FALSE, error, <<>>, FALSE, NoData) : error \in ThrownErrors}
  \cup {Body(TRUE, NoErrorThrown, <<"{">>, TRUE, data) : data \in DataInputs}

Response(status, statusName, statusText, contentType, body) ==
  [kind |-> "response", error |-> NoErrorThrown, status |-> status, statusName |-> statusName,
   statusText |-> statusText, contentType |-> contentType, body |-> body]

\* What a fetch call can give
Outcomes ==
  {[kind |-> "throws", error |-> error, status |-> 0, statusName |-> "", statusText |-> "",
    contentType |-> "null", body |-> Body(FALSE, NoErrorThrown, <<>>, FALSE, NoData)] :
     error \in ThrownErrors}
  \cup {Response(404, "404", "", "text/html", Body(TRUE, NoErrorThrown, <<"<", "!", "D">>, FALSE, NoData)),
        Response(500, "500", "Internal Server Error", "application/json",
                 Body(TRUE, NoErrorThrown, <<"{">>, TRUE, NoData)),
        Response(502, "502", "Bad Gateway", "text/html",
                 Body(TRUE, NoErrorThrown, <<"<", "!", "D">>, FALSE, NoData)),
        Response(503, "503", "", "null", Body(TRUE, NoErrorThrown, <<>>, FALSE, NoData))}
  \cup {Response(200, "200", "OK", contentType, body) :
          contentType \in {"null", "text/html", "application/json", "application/json; charset=utf-8"},
          body \in BodyInputs}

InitAelf ==
  /\ mode = "aelf"
  /\ pc = "call"
  /\ PackerIdle
  /\ LibraryIdle
  /\ HookIdle
  /\ DatabaseIdle
  /\ AppIdle
  /\ ExportIdle
  /\ AelfIdle

NextAelf ==
  \/ \E date \in Dates, outcome \in Outcomes : GetReadingsForDate(date, outcome)
  \/ \E outcome \in Outcomes : TryAlternativeApproach(outcome)

SpecAelf == InitAelf /\ [][NextAelf]_vars

----------------------------------------------------------------------------
(* Properties of the reading service *)

NonEmptyString(x) == x.t = "string" /\ \E k \in 1..Len(x.v) : x.v[k] # ""

\* The response has a first mass with a lecture of a recognised type.
HasRecognisedLecture(outcome) ==
  /\ outcome.kind = "response"
  /\ IsOk(outcome.status)
  /\ IsJsonContentType(outcome.contentType)
  /\ outcome.body.reads
  /\ outcome.body.parses
  /\ outcome.body.data.t = "object"
  /\ outcome.body.data.messes.t = "array"
  /\ Len(outcome.body.data.messes.v) >= 1
  /\ outcome.body.data.messes.v[1].t = "object"
  /\ outcome.body.data.messes.v[1].lectures.t = "array"
  /\ \E k \in 1..Len(outcome.body.data.messes.v[1].lectures.v) :
       LET lecture == outcome.body.data.messes.v[1].lectures.v[k] IN
       lecture.type.t = "string" /\ ReadingKey(LowerCaseType(lecture.type.v)) # "none"

\* C24: getReadingsForDate always resolves; it makes the proxy request and at
\* most one direct request after it; when the last request it made failed (it
\* threw, had a status that is not OK, a body that is not JSON or cannot be
\* parsed, no mass, no lecture or no lecture of a recognised type) it resolves
\* to the sample readings with an error that is not empty; it resolves
\* without error only to readings parsed from a response with a recognised
\* lecture, and every error comes with the sample readings.
AlwaysFallsBackToSample ==
  (mode = "aelf" /\ pc = "done") =>
    LET last == requests[Len(requests)].outcome
        result == serviceResponse.response
        sample == getMockReadings(requests[1].date, result.error).readings
    IN /\ serviceResponse.kind = "resolved"
       /\ Len(requests) \in {1, 2}
       /\ requests[1].url = "proxy"
       /\ Len(requests) = 2 => requests[2].url = "direct"
       /\ ~HasRecognisedLecture(last) =>
            result.readings = sample /\ NonEmptyString(result.error)
       /\ result.error = Undefined =>
            /\ HasRecognisedLecture(last)
            /\ result.readings # <<>>
            /\ \A k \in 1..Len(result.readings) : result.readings[k].id[1] \notin {"first", "psalm", "gospel"}
       /\ result.error # Undefined =>
            result.readings = sample /\ NonEmptyString(result.error)

\* The direct request made after the proxy request failed has failed too, on a
\* response without a lecture of a recognised type.
RetryFellBackToSample ==
  /\ mode = "aelf"
  /\ pc = "done"
  /\ Len(requests) = 2
  /\ requests[2].outcome.kind = "response"
  /\ requests[2].outcome.body.parses
  /\ IsJsonContentType(requests[2].outcome.contentType)
  /\ Len(requests[2].outcome.body.data.messes.v) = 1
  /\ Len(requests[2].outcome.body.data.messes.v[1].lectures.v) = 2
  /\ ~HasRecognisedLecture(requests[2].outcome)
  /\ NonEmptyString(serviceResponse.response.error)

----------------------------------------------------------------------------
(* The export (PowerPointService.exportPresentation).                      *)
(*                                                                         *)
(* printed lists the slides in the order pptx.addSlide() made them, each   *)
(* with what it shows and the number addText printed on it.                *)

\* The loop of optimizeContentForWordCount over list from position k on, and
\* the push of the last chunk: ReadingStep and ReadingFlush as one function.
RECURSIVE PackSentences(_, _, _, _, _, _)
PackSentences(list, k, content, units, count, out) ==
  IF k > Len(list)
  THEN IF Trim(content) # <<>> THEN Append(out, Chunk(Trim(content), count, units, "last"))
       ELSE out
  ELSE LET sentence == list[k]
           sentenceWordCount == countWords(sentence)
           potentialWordCount == count + sentenceWordCount
       IN IF ExceedsMax(potentialWordCount, count)
          THEN LET short == ShortSentenceRule(count, sentenceWordCount)
                   closed == IF short THEN AppendUnit(content, <<" ">>, sentence) ELSE content
                   closedUnits == IF short THEN Append(units, k) ELSE units
                   closedCount == IF short THEN potentialWordCount ELSE count
               IN PackSentences(list, k + 1, sentence, <<k>>, sentenceWordCount,
                    IF Trim(closed) # <<>>
                    THEN Append(out, Chunk(Trim(closed), closedCount, closedUnits,
                                           IF short THEN "overflow" ELSE "full"))
                    ELSE out)
          ELSE PackSentences(list, k + 1, AppendUnit(content, <<" ">>, sentence),
                             Append(units, k), potentialWordCount, out)

\* optimizeContentForWordCount(text)
optimizeContentForWordCount(readingText) ==
  mergeSmallChunks(PackSentences(splitIntoSentences(readingText), 1, <<>>, <<>>, 0, <<>>))

RECURSIVE PackSections(_, _)
PackSections(list, sec) ==
  IF sec > Len(list) THEN <<>> ELSE PackSection(list[sec], sec) \o PackSections(list, sec + 1)

\* optimizeSongForWordCount(lyrics)
optimizeSongForWordCount(lyrics) == PackSections(splitSongIntoSections(lyrics), 1)

Slide(kind, id, part, number) == [kind |-> kind, id |-> id, part |-> part, number |-> number]

\* optimizedChunks.forEach((chunk, index) => ...): a slide per chunk, numbered
\* startSlideNumber + slideCount; slideCount++.
RECURSIVE AddContentSlides(_, _, _, _, _)
AddContentSlides(id, total, index, startSlideNumber, made) ==
  IF index >= total THEN made
  ELSE AddContentSlides(id, total, index + 1, startSlideNumber,
         [slides |-> Append(made.slides,
                            Slide("content", id, index + 1, startSlideNumber + made.slideCount)),
          slideCount |-> made.slideCount + 1])

\* A faulty variant of CreateOptimizedSlides: the content slides are numbered
\* from the number of the title slide on.
CreateOptimizedSlidesRepeatsNumber(id, chunks, startSlideNumber) ==
  AddContentSlides(id, Len(chunks), 0, startSlideNumber,
    [slides |-> <<Slide("title", id, 0, startSlideNumber + 0)>>, slideCount |-> 0])

\* createOptimizedReadingSlides and createOptimizedSongSlides: the title
\* slide, numbered startSlideNumber + 0, slideCount++, then the content
\* slides; slideCount is returned.
CreateOptimizedSlides(id, chunks, startSlideNumber) ==
  AddContentSlides(id, Len(chunks), 0, startSlideNumber,
    [slides |-> <<Slide("title", id, 0, startSlideNumber + 0)>>, slideCount |-> 1])

\* let slideNumber = 1; slideNumber += this.createTitleSlide(pptx, presentation, slideNumber)
ExportTitleSlide ==
  /\ mode = "export" /\ pc = "title"
  /\ printed' = <<Slide("presentation", "", 0, slideNumber)>>
  /\ slideNumber' = slideNumber + 1
  /\ idx' = 1
  /\ pc' = "items"
  /\ UNCHANGED <<mode, chunksIn, presentation, logged>>
  /\ UNCHANGED <<text, sentences, sections, currentChunk, currentWordCount, optimizedChunks,
                 slideCount, slideTitles>>
  /\ UNCHANGED <<libraryVars, hookVars, db, appVars, aelfVars>>

\* One iteration of for (const slideItem of sortedSlides); idx is the
\* position of slideItem.
ExportSlideItem ==
  /\ mode = "export" /\ pc = "items"
  /\ LET sortedSlides == SortByOrder(presentation.slideOrder) IN
     /\ idx <= Len(sortedSlides)
     /\ LET slideItem == sortedSlides[idx]
            found == IF slideItem.type = "reading" THEN FindIndex(presentation.readings, slideItem.id)
                     ELSE IF slideItem.type = "song" THEN FindIndex(presentation.songs, slideItem.id)
                     ELSE 0
            chunks == IF found = 0 THEN <<>>
                      ELSE IF slideItem.type = "reading"
                      THEN optimizeContentForWordCount(presentation.readings[found].text)
                      ELSE optimizeSongForWordCount(presentation.songs[found].lyrics)
            made == CreateOptimizedSlides(slideItem.id, chunks, slideNumber)
        IN IF found = 0
           THEN UNCHANGED <<printed, slideNumber>>
           ELSE /\ printed' = printed \o made.slides
                /\ slideNumber' = slideNumber + made.slideCount
  /\ idx' = idx + 1
  /\ UNCHANGED <<mode, pc, chunksIn, presentation, logged>>
  /\ UNCHANGED <<text, sentences, sections, currentChunk, currentWordCount, optimizedChunks,
                 slideCount, slideTitles>>
  /\ UNCHANGED <<libraryVars, hookVars, db, appVars, aelfVars>>

\* After the loop: console.log(`${slideNumber - 1} slides créées`).
ExportLog ==
  /\ mode = "export" /\ pc = "items"
  /\ idx > Len(presentation.slideOrder)
  /\ logged' = slideNumber - 1
  /\ pc' = "done"
  /\ UNCHANGED <<mode, chunksIn, presentation, slideNumber, printed>>
  /\ UNCHANGED <<packerVars, libraryVars, hookVars, db, appVars, aelfVars>>

----------------------------------------------------------------------------
(* Inputs of the export *)

MaxItems == 3

\* Two readings, of two chunks and of none, and two songs, of one chunk and
\* of two.
ExportReadings ==
  <<[id |-> "premiere_lecture-A-0", text |-> ReadingText(<<78, 16>>, "tight")],
    [id |-> "evangile-A-1", text |-> <<" ">>]>>

ExportSongs ==
  <<[id |-> "song-1", lyrics |-> SongLyrics(<<[kind |-> "R/", counts |-> <<14>>]>>, "tight")],
    [id |-> "song-2", lyrics |-> SongLyrics(<<[kind |-> "plain", counts |-> <<78, 14>>]>>, "tight")]>>

\* The items a slide order can hold: one for each reading and song, and two
\* whose reading or song is not in the presentation.
ItemInputs ==
  {[id |-> "premiere_lecture-A-0", type |-> "reading"], [id |-> "evangile-A-1", type |-> "reading"],
   [id |-> "song-1", type |-> "song"], [id |-> "song-2", type |-> "song"],
   [id |-> "evangile-B-0", type |-> "reading"], [id |-> "song-3", type |-> "song"]}

\* Slide orders of up to MaxItems different items, their orders a permutation
\* of 0..n-1.
SlideOrders ==
  UNION {{[k \in 1..n |-> SlideItem(items[k].id, items[k].type, orders[k])] :
            items \in {f \in [1..n -> ItemInputs] : \A i, j \in 1..n : f[i] = f[j] => i = j},
            orders \in {g \in [1..n -> 0..(n - 1)] : \A i, j \in 1..n : g[i] = g[j] => i = j}} :
         n \in 0..MaxItems}

InitExport ==
  /\ mode = "export"
  /\ pc = "title"
  /\ PackerIdle
  /\ LibraryIdle
  /\ HookIdle
  /\ DatabaseIdle
  /\ AppIdle
  /\ AelfIdle
  /\ presentation \in {[readings |-> ExportReadings, songs |-> ExportSongs, slideOrder |-> order] :
                         order \in SlideOrders}
  /\ slideNumber = 1
  /\ printed = <<>>
  /\ logged = -1

NextExport ==
  \/ ExportTitleSlide
  \/ ExportSlideItem
  \/ ExportLog

SpecExport == InitExport /\ [][NextExport]_vars

----------------------------------------------------------------------------
(* Properties of the export *)

\* The slides of the items from position k of the sorted slide order on, the
\* first of them being the slide number next.
RECURSIVE SlidesFrom(_, _, _)
SlidesFrom(sorted, k, next) ==
  IF k > Len(sorted) THEN <<>>
  ELSE LET item == sorted[k]
           list == IF item.type = "reading" THEN presentation.readings ELSE presentation.songs
           resolves == \E x \in 1..Len(list) : list[x].id = item.id
           chunks == IF item.type = "reading"
                     THEN optimizeContentForWordCount(list[FindIndex(list, item.id)].text)
                     ELSE optimizeSongForWordCount(list[FindIndex(list, item.id)].lyrics)
       IN IF ~resolves THEN SlidesFrom(sorted, k + 1, next)
          ELSE <<Slide("title", item.id, 0, next)>>
               \o [c \in 1..Len(chunks) |-> Slide("content", item.id, c, next + c)]
               \o SlidesFrom(sorted, k + 1, next + 1 + Len(chunks))

\* C26: the export makes the title slide of the presentation, then, for each
\* item in ascending order whose id resolves, a title slide and a slide per
\* chunk, and nothing for the other items; the numbers on the slides are 1, 2,
\* ..., N in the order of the slides, and the count logged is N.
SlidesNumberedInOrder ==
  /\ (mode = "export" /\ pc \in {"items", "done"}) =>
       \A k \in 1..Len(printed) : printed[k].number = k
  /\ (mode = "export" /\ pc = "done") =>
       /\ printed = <<Slide("presentation", "", 0, 1)>>
                    \o SlidesFrom(SortByOrder(presentation.slideOrder), 1, 2)
       /\ logged = Len(printed)

\* An export of three items given in another order than that of the array, one
\* of which does not resolve and one of which has two chunks or more.
ExportedOutOfArrayOrder ==
  /\ mode = "export"
  /\ pc = "done"
  /\ Len(presentation.slideOrder) = 3
  /\ presentation.slideOrder[1].order = 2
  /\ \E k \in 1..3 : presentation.slideOrder[k].id \in {"evangile-B-0", "song-3"}
  /\ \E k \in 1..Len(printed) : printed[k].part = 2
  /\ logged >= 4

====
